---- MODULE Spec2Model ----
(***************************************************************************)
(* Position & order lifecycle of src/main_with_ib_trading.py:              *)
(* IBTradingManager (place_order, close_position, check_exit_conditions,   *)
(* close_all_positions_daily, handle_opposite_signal, the Fibonacci risk   *)
(* calculator), the tickPrice callback that feeds GLOBAL_PRICE_CACHE, and  *)
(* process_single_image, the worker task that turns an aligned signal into *)
(* manager calls.                                                          *)
(*                                                                         *)
(* Numbers.  Prices are whole dollars.  Fibonacci fractions are kept in    *)
(* thousandths, confidence in quarters, risk in thousandths of a dollar,   *)
(* take-profit / stop-loss levels in 1/LevelDen dollars and                *)
(* current_capital in tenths of a dollar: with these units every product   *)
(* of the source is an exact integer.  Python floats are modelled by exact *)
(* arithmetic.                                                             *)
(***************************************************************************)
EXTENDS Integers, Sequences, FiniteSets, TLC

VARIABLES
    all_symbols,         \* IBTradingManager.all_symbols, in dictionary order
    ib,                  \* IBTradingManager.ib: "None" or "conn"
    current_positions,   \* IBTradingManager.current_positions
    current_capital,     \* IBTradingManager.current_capital, in tenths of a dollar
    ledger,              \* rows appended to trading_records.csv
    GLOBAL_PRICE_CACHE,  \* module-level price cache
    symbol_to_price,     \* IBApiApp.symbol_to_price: LAST and CLOSE per symbol
    now,                 \* wall clock, in seconds
    task,                \* per worker: the process_single_image call in progress
    last,                \* the operation performed by the latest step
    log,                 \* logger output of the latest step
    submitted,           \* orders handed to the broker by the latest step
    fib,                 \* latest input/result of calculate_fibonacci_levels
    analyzer,            \* the CandleStrategyAnalyzer of src/strategy.py in use
    app                  \* IBApiApp's record of the order in flight and the call that waits on it

vars == <<all_symbols, ib, current_positions, current_capital, ledger, GLOBAL_PRICE_CACHE,
          symbol_to_price, now, task, last, log, submitted, fib, analyzer, app>>

(***************************************************************************)
(* Bounds of the model.                                                    *)
(***************************************************************************)
MaxPrice == 2        \* prices range over 1..MaxPrice dollars
MaxTrades == 1       \* ENTRY rows the ledger may hold under Spec
MaxEntries == 2      \* ENTRY rows the ledger may hold under SpecSeq, SpecConc, SpecIds
MaxFibPrice == 4     \* prices range over 1..MaxFibPrice dollars under SpecFib
MaxClock == 1        \* the clock runs over 0..MaxClock seconds
MaxCols == 5         \* images of up to MaxCols pixel columns are enumerated
FillTimeout == 2     \* wait_for_fill's timeout (30.0 s), in clock ticks of SpecWait
HistTimeout == 1     \* request_historical_5m's timeout (6.0 s), in clock ticks of SpecWait
pixels_range == 2    \* validate_horizontal_line's pixels_range (30), in pixel columns
IdTimeout == 1       \* IBApiApp.place_order's wait for next_order_id (5.0 s), in clock ticks
MaxOrders == 3       \* IBApiApp.place_order calls under SpecOrderIds
MaxFirstId == 2      \* nextValidId delivers an id in 1..MaxFirstId
NumSuffix == 2       \* values of random.randint(100, 999) that are drawn
NumWorkers == 2      \* pool workers that run process_single_image tasks

(***************************************************************************)
(* Program constants.                                                      *)
(***************************************************************************)
init_capital == 4000       \* dollars
RandLo == 100              \* lowest random suffix of a trade id
ReqBase == 1000            \* IBApiApp._req_id before the first subscription
DaySeconds == 86400
market_open == 34200       \* 09:30:00, in seconds after midnight
market_close == 57600      \* 16:00:00
TICK_LAST == 4
TICK_CLOSE == 9
FIB_382 == 382             \* 0.382, in thousandths
FIB_618 == 618
FIB_1382 == 1382
FIB_1618 == 1618
Milli == 1000
Quarters == 4              \* confidence 1.0, in quarters
LevelDen == Milli * Milli * Quarters   \* levels are kept in 1/LevelDen dollars

None == "None"            \* of a string-valued field
NonePrice == <<>>         \* a price is <<>> (None) or <<p>>
NonePos == [none |-> TRUE]   \* current_positions[symbol] is None
NoneFill == [status |-> "None", avg_fill_price |-> 0]   \* wait_for_fill returned None
Symbols == {all_symbols[i] : i \in 1..Len(all_symbols)}
Untracked == "MSFT"
Directions == {"buy", "sell"}
Signals == {"buy", "sell", "none"}
Prices == 1..MaxPrice
Suffixes == RandLo..(RandLo + NumSuffix - 1)
Workers == 1..NumWorkers
Idle == [pc |-> "idle"]

Max(a, b) == IF a >= b THEN a ELSE b
Min(a, b) == IF a <= b THEN a ELSE b

\* Python int(): truncation toward zero of num/den, den > 0.
PyInt(num, den) == IF num >= 0 THEN num \div den ELSE -((-num) \div den)

(***************************************************************************)
(* Fibonacci risk calculator: IBTradingManager.calculate_fibonacci_levels. *)
(* bars is the outcome of request_historical_5m reduced to what the code   *)
(* reads of it: kind "none" (no bars), "error" (an exception while reading *)
(* them) or "bars" with low, the min of the lows, and high, the max of the *)
(* highs, of the last 33 bars.  The result is <<take_profit, stop_loss>>.  *)
(***************************************************************************)
BarOutcomesOver(P) ==
    {[kind |-> k, low |-> 0, high |-> 0] : k \in {"none", "error"}} \cup
    {b \in [kind : {"bars"}, low : P, high : P] : b.low <= b.high}

BarOutcomes == BarOutcomesOver(Prices)
NoBars == [kind |-> "none", low |-> 0, high |-> 0]

\* Faulty variant of simple_levels: the levels of a long whatever the
\* direction.
simple_levels_long_only(entry_price, signal_type) ==
    <<entry_price * (LevelDen \div 100) * 101, entry_price * (LevelDen \div 1000) * 995>>

\* entry * 1.01, entry * 0.995 (buy); entry * 0.99, entry * 1.005 (sell)
simple_levels(entry_price, signal_type) ==
    IF signal_type = "buy"
    THEN <<entry_price * (LevelDen \div 100) * 101, entry_price * (LevelDen \div 1000) * 995>>
    ELSE <<entry_price * (LevelDen \div 100) * 99, entry_price * (LevelDen \div 1000) * 1005>>

\* fib_sl and fib_tp, in 1/(Milli * Quarters)
fib_sl_of(confidence) == FIB_382 * Quarters + (Quarters - confidence) * (FIB_618 - FIB_382)
fib_tp_of(confidence) == FIB_1382 * Quarters + confidence * (FIB_1618 - FIB_1382)

\* max(recent_high - recent_low, entry_price * 0.005), in thousandths of a dollar
range_span(entry_price, bars) == Max((bars.high - bars.low) * Milli, entry_price * 5)

\* the correction of the BUY branch, lines 689-691
buy_adjusted(entry_price, confidence, bars) ==
    LET stop_loss     == Min(bars.low * LevelDen, entry_price * (LevelDen \div 1000) * 995)
        adjusted_risk == Max(entry_price * LevelDen - stop_loss,
                             range_span(entry_price, bars) * (LevelDen \div Milli))
        take_profit   == entry_price * LevelDen
                         + (adjusted_risk \div (Milli * Quarters)) * fib_tp_of(confidence)
    IN  <<take_profit, stop_loss>>

\* Faulty variant of fib_buy: the stop distance is not doubled.
fib_buy_single_stop(entry_price, confidence, bars) ==
    LET raw_risk  == (entry_price - bars.low) * Milli
        risk_long == IF raw_risk <= 0 THEN range_span(entry_price, bars) ELSE raw_risk
        sl        == entry_price * LevelDen - risk_long * fib_sl_of(confidence)
        tp        == entry_price * LevelDen + risk_long * fib_tp_of(confidence)
    IN  IF tp <= entry_price * LevelDen \/ sl >= entry_price * LevelDen
        THEN buy_adjusted(entry_price, confidence, bars)
        ELSE <<tp, sl>>

\* the BUY branch, lines 670-692
fib_buy(entry_price, confidence, bars) ==
    LET raw_risk  == (entry_price - bars.low) * Milli
        risk_long == IF raw_risk <= 0 THEN range_span(entry_price, bars) ELSE raw_risk
        sl        == entry_price * LevelDen - risk_long * fib_sl_of(confidence) * 2
        tp        == entry_price * LevelDen + risk_long * fib_tp_of(confidence)
    IN  IF tp <= entry_price * LevelDen \/ sl >= entry_price * LevelDen
        THEN buy_adjusted(entry_price, confidence, bars)
        ELSE <<tp, sl>>

\* the correction of the SELL branch, lines 712-714
sell_adjusted(entry_price, confidence, bars) ==
    LET stop_loss     == Max(bars.high * LevelDen, entry_price * (LevelDen \div 1000) * 1005)
        adjusted_risk == Max(stop_loss - entry_price * LevelDen,
                             range_span(entry_price, bars) * (LevelDen \div Milli))
        take_profit   == entry_price * LevelDen
                         - (adjusted_risk \div (Milli * Quarters)) * fib_tp_of(confidence)
    IN  <<take_profit, stop_loss>>

\* the SELL branch, lines 693-715
fib_sell(entry_price, confidence, bars) ==
    LET raw_risk   == (bars.high - entry_price) * Milli
        risk_short == IF raw_risk <= 0 THEN range_span(entry_price, bars) ELSE raw_risk
        sl         == entry_price * LevelDen + risk_short * fib_sl_of(confidence) * 2
        tp         == entry_price * LevelDen - risk_short * fib_tp_of(confidence)
    IN  IF tp >= entry_price * LevelDen \/ sl <= entry_price * LevelDen
        THEN sell_adjusted(entry_price, confidence, bars)
        ELSE <<tp, sl>>

calculate_fibonacci_levels(conn, entry_price, signal_type, confidence, bars) ==
    IF conn = None \/ bars.kind \in {"none", "error"}
    THEN simple_levels(entry_price, signal_type)
    ELSE IF signal_type = "buy"
         THEN fib_buy(entry_price, confidence, bars)
         ELSE fib_sell(entry_price, confidence, bars)

(***************************************************************************)
(* The broker, seen from one submitted order: ib.place_order raises, or    *)
(* the order is accepted and, while wait_for_fill polls, the orderStatus   *)
(* callback reports Filled at some average price, Rejected, Cancelled, or  *)
(* nothing at all before the deadline.                                     *)
(***************************************************************************)
BrokerOutcomes ==
    {[submit |-> "raise", status |-> "none", avgFillPrice |-> 0]} \cup
    {[submit |-> "ok", status |-> st, avgFillPrice |-> 0] :
        st \in {"Rejected", "Cancelled", "none"}} \cup
    {[submit |-> "ok", status |-> "Filled", avgFillPrice |-> p] : p \in Prices}

\* The manager's state while one handler runs: current_positions,
\* current_capital, the ledger, the clock, the handler's log output, the
\* orders it submitted and the value it returns.
Manager == [pos |-> current_positions, cap |-> current_capital, led |-> ledger,
            now |-> now, log |-> <<>>, sub |-> <<>>, ret |-> None]

Logged(M, msg, symbol) == [M EXCEPT !.log = Append(@, [msg |-> msg, symbol |-> symbol])]

contracts == IF ib = None THEN {} ELSE Symbols

\* Faulty variant of get_current_price: a missing price reads as the
\* lowest price instead of None.
get_current_price_defaulting(symbol) ==
    LET price == IF symbol \in DOMAIN GLOBAL_PRICE_CACHE
                 THEN GLOBAL_PRICE_CACHE[symbol] ELSE NonePrice
    IN  IF price = NonePrice THEN <<1>>
        ELSE IF price[1] <= 0 THEN <<1>> ELSE price

\* IBTradingManager.get_current_price, lines 614-624
get_current_price(symbol) ==
    LET price == IF symbol \in DOMAIN GLOBAL_PRICE_CACHE
                 THEN GLOBAL_PRICE_CACHE[symbol] ELSE NonePrice
    IN  IF price = NonePrice THEN NonePrice
        ELSE IF price[1] <= 0 THEN NonePrice ELSE price

\* IBApiApp.wait_for_fill for an accepted order whose callbacks are b:
\* the fill details, or None on Rejected / Cancelled / deadline.  The time
\* spent waiting is the Tick steps that other threads see meanwhile.
wait_for_fill(M, b, symbol) ==
    CASE b.status = "Filled" ->
            [M |-> M, fill |-> [status |-> "Filled", avg_fill_price |-> b.avgFillPrice]]
      [] b.status \in {"Rejected", "Cancelled"} ->
            [M |-> Logged(M, "Order was " \o b.status, symbol), fill |-> NoneFill]
      [] OTHER ->
            [M |-> Logged(M, "Timeout waiting for order to fill", symbol),
             fill |-> NoneFill]

\* Faulty variant of calculate_position_size: no minimum of one share.
calculate_position_size_no_minimum(capital, entry_price) ==
    PyInt(capital, 100 * entry_price)

\* IBTradingManager.calculate_position_size, lines 731-736: 10% of the
\* capital (in tenths of a dollar) over the price, at least one share.
calculate_position_size(capital, entry_price) ==
    Max(1, PyInt(capital, 100 * entry_price))

\* IBTradingManager._generate_trade_id: the timestamp to the second and a
\* random suffix.
generate_trade_id(t, suffix) == <<t, suffix>>

\* Faulty variant of is_market_hours: 16:00:00 still counts as open.
is_market_hours_close_inclusive(t) ==
    market_open <= t % DaySeconds /\ t % DaySeconds <= market_close

\* lines 753-771: market_open <= current_us_time < market_close, for the
\* clock t in seconds, second 0 being a midnight of US/Eastern
is_market_hours(t) ==
    market_open <= t % DaySeconds /\ t % DaySeconds < market_close

\* round(limit_price, 2), lines 789 and 902, from thousandths of a dollar to
\* cents.  limit_price is a whole-dollar price times 1.005 or 0.995: either
\* a whole number of cents or half a cent above one, and then the float
\* product lies below the tie for the prices 1..8 and round() goes down.
round_cents(limit_price) ==
    IF limit_price % 10 = 5 THEN limit_price \div 10 ELSE (limit_price + 5) \div 10

\* The Order object built by place_order / close_position; lmtPrice is in
\* cents.
build_order(action, shares, limit_price, mh) ==
    IF mh
    THEN [action |-> action, orderType |-> "MKT", totalQuantity |-> shares,
          lmtPrice |-> 0, outsideRth |-> FALSE]
    ELSE [action |-> action, orderType |-> "LMT", totalQuantity |-> shares,
          lmtPrice |-> round_cents(limit_price), outsideRth |-> TRUE]

entry_row(p) ==
    [trade_id |-> p.trade_id, action |-> "ENTRY", symbol |-> p.symbol,
     signal_type |-> p.signal_type, shares |-> p.shares,
     entry_price |-> p.entry_price, exit_price |-> 0, pnl_dollar |-> 0,
     reason |-> ""]

exit_row(p, exit_price, pnl_dollar, reason) ==
    [trade_id |-> p.trade_id, action |-> "EXIT", symbol |-> p.symbol,
     signal_type |-> p.signal_type, shares |-> p.shares,
     entry_price |-> p.entry_price, exit_price |-> exit_price,
     pnl_dollar |-> pnl_dollar, reason |-> reason]

\* Faulty variant of entry_fill_price: an unconfirmed entry is recorded at
\* the limit price's default of zero instead of the reference price.
entry_fill_price_unconfirmed_zero(fill, entry_price) ==
    IF fill # NoneFill THEN fill.avg_fill_price ELSE 0

\* Faulty variant of entry_fill_price: the fill is ignored and the
\* reference price kept.
entry_fill_price_reference(fill, entry_price) == entry_price

\* lines 803-809: the fill's average price, or the reference price passed in
entry_fill_price(fill, entry_price) ==
    IF fill # NoneFill THEN fill.avg_fill_price ELSE entry_price

\* Faulty variant of place_order_failed: the error is logged but the
\* function still reports success.
place_order_failed_reports_success(M, symbol) ==
    [Logged(M, "Error placing order", symbol) EXCEPT !.ret = "True"]

\* lines 846-848: the except branch of place_order
place_order_failed(M, symbol) ==
    [Logged(M, "Error placing order", symbol) EXCEPT !.ret = "False"]

(***************************************************************************)
(* IBTradingManager.place_order, lines 738-848.  b is the broker's         *)
(* behaviour for the order, mh whether the US/Eastern time is inside       *)
(* 09:30-16:00, bars the outcome of the historical-bar request, suffix the *)
(* random suffix of the trade id.  entry_price is the reference price.     *)
(***************************************************************************)
place_order(M, symbol, signal_type, entry_price, confidence, b, mh, bars, suffix) ==
    LET shares      == calculate_position_size(M.cap, entry_price)
        action      == IF signal_type = "buy" THEN "BUY" ELSE "SELL"
        limit_price == IF signal_type = "buy" THEN entry_price * 1005 ELSE entry_price * 995
        order       == build_order(action, shares, limit_price, mh)
    IN  IF symbol \notin contracts
        THEN place_order_failed(M, symbol)               \* KeyError on self.contracts
        ELSE IF ib = None
        THEN [Logged(M, "No IB connection available for placing order", symbol)
                 EXCEPT !.ret = "False"]
        ELSE IF b.submit = "raise"
        THEN place_order_failed(Logged(M, "placeOrder failed", symbol), symbol)
        ELSE
        LET M1   == [M EXCEPT !.sub = Append(@, order)]
            w    == wait_for_fill(M1, b, symbol)
            M2   == w.M
            actual_entry_price == entry_fill_price(w.fill, entry_price)
            M3   == IF w.fill # NoneFill
                    THEN Logged(M2, "Order filled at actual price", symbol)
                    ELSE Logged(M2, "No fill confirmation received, using estimated price", symbol)
            lv   == calculate_fibonacci_levels(ib, actual_entry_price, signal_type, confidence, bars)
            position_info ==
                    [trade_id |-> generate_trade_id(M3.now, suffix), symbol |-> symbol,
                     signal_type |-> signal_type, entry_price |-> actual_entry_price,
                     shares |-> shares, take_profit |-> lv[1], stop_loss |-> lv[2]]
        IN  [Logged(M3, "Order placed", symbol) EXCEPT
                !.pos = [@ EXCEPT ![symbol] = position_info],
                !.cap = @ - shares * entry_price,
                !.led = Append(@, entry_row(position_info)),
                !.ret = "True"]

\* Faulty variant of no_position_to_close: the early return is missing, so
\* the body goes on to read the fields of None and lands in the except
\* branch.
no_position_to_close_falls_through(M, symbol) ==
    Logged(Logged(M, "No position to close", symbol), "Error closing position", symbol)

\* lines 856-858: nothing to close
no_position_to_close(M, symbol) == Logged(M, "No position to close", symbol)

\* Faulty variant of pnl_dollar_of: the sign is not flipped for a short.
pnl_dollar_of_unsigned(signal_type, entry_price, actual_exit_price, shares) ==
    (actual_exit_price - entry_price) * shares

\* lines 927-930: dollar P&L of an exit
pnl_dollar_of(signal_type, entry_price, actual_exit_price, shares) ==
    LET pnl_dollar == (actual_exit_price - entry_price) * shares
    IN  IF signal_type = "sell" THEN -pnl_dollar ELSE pnl_dollar

(***************************************************************************)
(* IBTradingManager.close_position, lines 850-958.                         *)
(***************************************************************************)
close_position(M, symbol, reason, b, mh) ==
    IF symbol \notin DOMAIN M.pos
    THEN no_position_to_close(M, symbol)
    ELSE IF M.pos[symbol] = NonePos
    THEN no_position_to_close(M, symbol)
    ELSE
    LET position_info == M.pos[symbol]
        current_price == get_current_price(symbol)
    IN  IF current_price = NonePrice
        THEN Logged(M, "Cannot get current price", symbol)
        ELSE
        LET cp          == current_price[1]
            action      == IF position_info.signal_type = "buy" THEN "SELL" ELSE "BUY"
            limit_price == IF position_info.signal_type = "buy" THEN cp * 995 ELSE cp * 1005
            shares      == position_info.shares
            order       == build_order(action, shares, limit_price, mh)
        IN  IF symbol \notin contracts
            THEN Logged(M, "Error closing position", symbol)
            ELSE IF ib = None
            THEN Logged(M, "No IB connection available for closing position", symbol)
            ELSE IF b.submit = "raise"
            THEN Logged(Logged(M, "placeOrder failed", symbol), "Error closing position", symbol)
            ELSE
            LET M1 == [M EXCEPT !.sub = Append(@, order)]
                w  == wait_for_fill(M1, b, symbol)
                M2 == w.M
                actual_exit_price ==
                      IF w.fill # NoneFill THEN w.fill.avg_fill_price ELSE cp
                M3 == IF w.fill # NoneFill
                      THEN Logged(M2, "Closing order filled at actual price", symbol)
                      ELSE Logged(M2, "No fill confirmation for closing order, using market price", symbol)
                pnl_dollar == pnl_dollar_of(position_info.signal_type,
                                            position_info.entry_price,
                                            actual_exit_price, shares)
            IN  [Logged(M3, "Position closed", symbol) EXCEPT
                    !.led = Append(@, exit_row(position_info, actual_exit_price, pnl_dollar, reason)),
                    !.pos = [@ EXCEPT ![symbol] = NonePos],
                    !.cap = @ + shares * cp]

(***************************************************************************)
(* IBTradingManager.check_exit_conditions, lines 960-980: one pass over    *)
(* current_positions in dictionary order.  bs[i] is the broker's behaviour *)
(* for the closing order of the i-th symbol, should one be submitted.      *)
(***************************************************************************)
\* Faulty variant of exit_reason: a short is compared like a long.
exit_reason_ignores_direction(position_info, cp) ==
    IF cp * LevelDen >= position_info.take_profit THEN "TAKE PROFIT"
    ELSE IF cp * LevelDen <= position_info.stop_loss THEN "STOP LOSS"
    ELSE None

exit_reason(position_info, cp) ==
    IF position_info.signal_type = "buy"
    THEN IF cp * LevelDen >= position_info.take_profit THEN "TAKE PROFIT"
         ELSE IF cp * LevelDen <= position_info.stop_loss THEN "STOP LOSS"
         ELSE None
    ELSE IF cp * LevelDen <= position_info.take_profit THEN "TAKE PROFIT"
         ELSE IF cp * LevelDen >= position_info.stop_loss THEN "STOP LOSS"
         ELSE None

RECURSIVE exit_sweep(_, _, _, _)
exit_sweep(M, i, bs, mh) ==
    IF i > Len(all_symbols) THEN M
    ELSE LET symbol        == all_symbols[i]
             position_info == M.pos[symbol]
             current_price == get_current_price(symbol)
             M1 == IF position_info = NonePos THEN M
                   ELSE IF current_price = NonePrice THEN M
                   ELSE IF exit_reason(position_info, current_price[1]) = None THEN M
                   ELSE close_position(M, symbol,
                                       exit_reason(position_info, current_price[1]), bs[i], mh)
         IN  exit_sweep(M1, i + 1, bs, mh)

\* Faulty variant of check_exit_conditions: a close that fails abandons the
\* sweep for every symbol.
check_exit_conditions_abandoned(M, bs, mh) ==
    LET swept == exit_sweep(M, 1, bs, mh)
    IN  IF \E k \in 1..Len(swept.log) : swept.log[k].msg = "Error closing position"
        THEN Logged(M, "Error checking exit conditions", None)
        ELSE swept

check_exit_conditions(M, bs, mh) == exit_sweep(M, 1, bs, mh)

(***************************************************************************)
(* IBTradingManager.close_all_positions_daily, lines 982-987.              *)
(***************************************************************************)
RECURSIVE daily_sweep(_, _, _, _)
\* Faulty variant of daily_sweep: the sweep ends after the first symbol it
\* tries to close.
daily_sweep_first_only(M, i, bs, mh) ==
    IF i > Len(all_symbols) THEN M
    ELSE LET symbol == all_symbols[i]
         IN  IF M.pos[symbol] # NonePos
             THEN close_position(M, symbol, "DAILY CLOSE", bs[i], mh)
             ELSE daily_sweep(M, i + 1, bs, mh)

daily_sweep(M, i, bs, mh) ==
    IF i > Len(all_symbols) THEN M
    ELSE LET symbol == all_symbols[i]
             M1 == IF M.pos[symbol] # NonePos
                   THEN close_position(M, symbol, "DAILY CLOSE", bs[i], mh)
                   ELSE M
         IN  daily_sweep(M1, i + 1, bs, mh)

close_all_positions_daily(M, bs, mh) == daily_sweep(M, 1, bs, mh)

\* Faulty variant of handle_opposite_signal: every signal closes the Position.
handle_opposite_signal_any(M, symbol, new_signal_type, b, mh) ==
    LET current_position == M.pos[symbol]
    IN  IF current_position = NonePos THEN M
        ELSE close_position(M, symbol,
                            IF new_signal_type = "buy" THEN "OPPOSITE SIGNAL (BUY)"
                                                       ELSE "OPPOSITE SIGNAL (SELL)",
                            b, mh)

(***************************************************************************)
(* IBTradingManager.handle_opposite_signal, lines 989-1000.                *)
(***************************************************************************)
handle_opposite_signal(M, symbol, new_signal_type, b, mh) ==
    LET current_position == M.pos[symbol]
    IN  IF current_position = NonePos THEN M
        ELSE IF \/ (current_position.signal_type = "buy" /\ new_signal_type = "sell")
                \/ (current_position.signal_type = "sell" /\ new_signal_type = "buy")
             THEN close_position(M, symbol,
                                 IF new_signal_type = "buy" THEN "OPPOSITE SIGNAL (BUY)"
                                                            ELSE "OPPOSITE SIGNAL (SELL)",
                                 b, mh)
             ELSE M

(***************************************************************************)
(* check_signal_alignment, lines 1088-1104.  Confidence is in quarters.    *)
(***************************************************************************)
\* Faulty variant of check_signal_alignment: STM and Zigzag agreeing is
\* accepted only while TD is not the opposite direction.
check_signal_alignment_td_veto(stm, td, zigzag) ==
    IF stm = "buy" /\ td = "buy" /\ zigzag = "buy"
    THEN [is_aligned |-> TRUE, signal_type |-> "buy", confidence |-> Quarters]
    ELSE IF stm = "sell" /\ td = "sell" /\ zigzag = "sell"
    THEN [is_aligned |-> TRUE, signal_type |-> "sell", confidence |-> Quarters]
    ELSE IF stm = "buy" /\ zigzag = "buy" /\ td # "sell"
    THEN [is_aligned |-> TRUE, signal_type |-> "buy", confidence |-> Quarters \div 2]
    ELSE IF stm = "sell" /\ zigzag = "sell" /\ td # "buy"
    THEN [is_aligned |-> TRUE, signal_type |-> "sell", confidence |-> Quarters \div 2]
    ELSE [is_aligned |-> FALSE, signal_type |-> "none", confidence |-> 0]

check_signal_alignment(stm, td, zigzag) ==
    IF stm = "buy" /\ td = "buy" /\ zigzag = "buy"
    THEN [is_aligned |-> TRUE, signal_type |-> "buy", confidence |-> Quarters]
    ELSE IF stm = "sell" /\ td = "sell" /\ zigzag = "sell"
    THEN [is_aligned |-> TRUE, signal_type |-> "sell", confidence |-> Quarters]
    ELSE IF stm = "buy" /\ zigzag = "buy"
    THEN [is_aligned |-> TRUE, signal_type |-> "buy", confidence |-> Quarters \div 2]
    ELSE IF stm = "sell" /\ zigzag = "sell"
    THEN [is_aligned |-> TRUE, signal_type |-> "sell", confidence |-> Quarters \div 2]
    ELSE [is_aligned |-> FALSE, signal_type |-> "none", confidence |-> 0]

(***************************************************************************)
(* IBApiApp.tickPrice, lines 107-133, on the connection thread.            *)
(* subscribe_market_data_stream gave the i-th symbol request id            *)
(* ReqBase + i and set its cache entry to None.                            *)
(***************************************************************************)
ReqIds == (ReqBase + 1)..(ReqBase + Len(all_symbols) + 1)

reqId_to_symbol(reqId) ==
    IF ib # None /\ reqId - ReqBase \in 1..Len(all_symbols)
    THEN all_symbols[reqId - ReqBase] ELSE None

\* Faulty variant of preferred_value: CLOSE is preferred to LAST.
preferred_value_close_first(stp) == IF stp.close # NonePrice THEN stp.close ELSE stp.last

preferred_value(stp) == IF stp.last # NonePrice THEN stp.last ELSE stp.close

tickPrice(reqId, tickType, price) ==
    LET symbol == reqId_to_symbol(reqId)
    IN  IF price <= 0 \/ symbol = None
        THEN UNCHANGED <<symbol_to_price, GLOBAL_PRICE_CACHE>>
        ELSE LET stp == IF tickType = TICK_LAST
                        THEN [symbol_to_price[symbol] EXCEPT !.last = <<price>>]
                        ELSE IF tickType = TICK_CLOSE
                        THEN [symbol_to_price[symbol] EXCEPT !.close = <<price>>]
                        ELSE symbol_to_price[symbol]
             IN  /\ symbol_to_price' = [symbol_to_price EXCEPT ![symbol] = stp]
                 /\ GLOBAL_PRICE_CACHE' =
                        IF preferred_value(stp) # NonePrice
                        THEN [GLOBAL_PRICE_CACHE EXCEPT ![symbol] = preferred_value(stp)]
                        ELSE GLOBAL_PRICE_CACHE

(***************************************************************************)
(* The Candle Locator: CandleStrategyAnalyzer of src/strategy.py.  An      *)
(* image is given by the classification of its pixel columns, lines 50-78  *)
(* of detect_candles: cols[x + 1] is "red" when column x holds a red       *)
(* pixel, else "green" when it holds a green one, else "none".  A segment  *)
(* and a candle are records of left, right, color and width; a candle has  *)
(* a center as well.                                                       *)
(***************************************************************************)
Abs(n) == IF n >= 0 THEN n ELSE -n

NoCandle == [none |-> TRUE]
NoWidth == 0                 \* candle_width is None

\* lines 86-115: the continuous runs of one colour, from left to right.
\* The scan of x_color_map opens a segment at the first coloured column at
\* or after index i and extends it while the next column has its colour;
\* any other column closes it.
RECURSIVE segments_from(_, _, _)
segments_from(cols, i, segs) ==
    IF \A j \in i..Len(cols) : cols[j] = "none" THEN segs
    ELSE LET first == CHOOSE j \in i..Len(cols) :
                          cols[j] # "none" /\ \A k \in i..(j - 1) : cols[k] = "none"
             final == CHOOSE j \in first..Len(cols) :
                          /\ \A k \in first..j : cols[k] = cols[first]
                          /\ j = Len(cols) \/ cols[j + 1] # cols[first]
             current_segment == [left |-> first - 1, right |-> final - 1,
                                 color |-> cols[first], width |-> final - first + 1]
         IN  segments_from(cols, final + 1, Append(segs, current_segment))

segments_of(cols) == segments_from(cols, 1, <<>>)

\* width_counts: its keys in insertion order, and its values
RECURSIVE width_keys(_, _, _)
width_keys(segs, i, keys) ==
    IF i > Len(segs) THEN keys
    ELSE IF \E k \in 1..Len(keys) : keys[k] = segs[i].width
         THEN width_keys(segs, i + 1, keys)
         ELSE width_keys(segs, i + 1, Append(keys, segs[i].width))

width_count(segs, w) == Cardinality({i \in 1..Len(segs) : segs[i].width = w})

\* Faulty variant of most_common_width_of: the largest width instead of the
\* most frequent one.
most_common_width_largest(segs) ==
    LET keys == width_keys(segs, 1, <<>>)
        k    == CHOOSE k \in 1..Len(keys) : \A j \in 1..Len(keys) : keys[j] <= keys[k]
    IN  keys[k]

\* line 135: max(width_counts.items(), key=count)[0], the first key of
\* maximal count
most_common_width_of(segs) ==
    LET keys == width_keys(segs, 1, <<>>)
        k    == CHOOSE k \in 1..Len(keys) :
                    /\ \A j \in 1..Len(keys) :
                          width_count(segs, keys[j]) <= width_count(segs, keys[k])
                    /\ \A j \in 1..(k - 1) :
                          width_count(segs, keys[j]) < width_count(segs, keys[k])
    IN  keys[k]

\* line 159: sorted(width_counts.items(), key=count, reverse=True), a stable
\* sort: the widths by falling count, equal counts in insertion order
sorted_widths_of(segs) ==
    LET keys    == width_keys(segs, 1, <<>>)
        rank(k) == 1 + Cardinality({j \in 1..Len(keys) :
                        \/ width_count(segs, keys[j]) > width_count(segs, keys[k])
                        \/ /\ width_count(segs, keys[j]) = width_count(segs, keys[k])
                           /\ j < k})
    IN  [r \in 1..Len(keys) |-> keys[CHOOSE k \in 1..Len(keys) : rank(k) = r]]

as_candle(seg) ==
    [left |-> seg.left, right |-> seg.right, center |-> (seg.left + seg.right) \div 2,
     width |-> seg.width, color |-> seg.color]

\* lines 139-153 and 162-175: the segments whose width is within tolerance
\* of width, as candles
candles_near(segs, width, tolerance) ==
    LET near(seg) == Abs(seg.width - width) <= tolerance
        kept      == SelectSeq(segs, near)
    IN  [k \in 1..Len(kept) |-> as_candle(kept[k])]

\* lines 155-179: the loop over the top 3 widths, from its k-th round on;
\* candles is the list left by the round before
RECURSIVE flexible_rounds(_, _, _, _, _)
flexible_rounds(segs, sorted_widths, k, candles, most_common_width) ==
    IF k > Min(3, Len(sorted_widths))
    THEN [candles |-> candles, most_common_width |-> most_common_width]
    ELSE LET width == sorted_widths[k]
             found == candles_near(segs, width, Max(2, width \div 3))
         IN  IF Len(found) >= 8
             THEN [candles |-> found, most_common_width |-> width]
             ELSE flexible_rounds(segs, sorted_widths, k + 1, found, most_common_width)

\* CandleStrategyAnalyzer.detect_candles, lines 44-190, on an analyzer a:
\* the analyzer afterwards; the list it returns is its candle_positions, or
\* empty when it returns early
detect_candles(a) ==
    LET segments          == segments_of(a.image)
        most_common_width == most_common_width_of(segments)
        candles           == candles_near(segments, most_common_width,
                                          Max(1, most_common_width \div 4))
        final == IF Len(candles) < 5
                 THEN flexible_rounds(segments, sorted_widths_of(segments), 1, candles,
                                      most_common_width)
                 ELSE [candles |-> candles, most_common_width |-> most_common_width]
    IN  IF segments = <<>> THEN a
        ELSE [a EXCEPT !.candle_positions = final.candles,
                       !.candle_width = final.most_common_width]

\* Faulty variant of get_second_rightmost_candle: the rightmost candle.
get_rightmost_candle(candle_positions) ==
    IF Len(candle_positions) < 2 THEN NoCandle
    ELSE candle_positions[CHOOSE k \in 1..Len(candle_positions) :
            \A j \in 1..Len(candle_positions) :
                candle_positions[j].center <= candle_positions[k].center]

\* CandleStrategyAnalyzer.get_second_rightmost_candle, lines 192-203: the
\* second candle of the list sorted by falling center (a stable sort)
get_second_rightmost_candle(candle_positions) ==
    LET before(k) == Cardinality({j \in 1..Len(candle_positions) :
                        \/ candle_positions[j].center > candle_positions[k].center
                        \/ /\ candle_positions[j].center = candle_positions[k].center
                           /\ j < k})
    IN  IF Len(candle_positions) < 2 THEN NoCandle
        ELSE candle_positions[CHOOSE k \in 1..Len(candle_positions) : before(k) = 1]

\* UnifiedColorDetector.color_rules, unified_color_detector.py lines 29-39,
\* 63-73 and 110-135, as the analyzer copies them (strategy.py lines 28-32):
\* whether the pixel <<r, g, b>> passes every rule of the colour
color_rules(color_name, rgb) ==
    LET r  == rgb[1]
        g  == rgb[2]
        b  == rgb[3]
        hi == Max(r, Max(g, b))
        lo == Min(r, Min(g, b))
        abs(v) == IF v < 0 THEN -v ELSE v
    IN  CASE color_name = "purple" ->
               /\ 10 * b >= 7 * Max(r, g)
               /\ g < r /\ g < b
               /\ hi - lo > 20
               /\ r > 20
               /\ b > 30
          [] color_name = "orange" ->
               /\ r > g /\ g > b
               /\ r > 80
               /\ g > 30 /\ 10 * g < 8 * r
               /\ 10 * b < 5 * Min(r, g)
               /\ hi - lo > 25
          [] color_name = "fuchsia" ->
               /\ r > 150 /\ b > 150
               /\ 10 * g < 7 * Min(r, b)
               /\ abs(r - b) < 80
               /\ 10 * Max(r, b) > 15 * g
               /\ hi - lo > 40
               /\ r + b > 2 * g + 100
          [] color_name = "aqua" ->
               /\ b > 100 /\ g > 100
               /\ 10 * r < 6 * Min(b, g)
               /\ abs(b - g) < 100
               /\ 10 * Min(b, g) > 7 * Max(b, g)
               /\ g > 80
               /\ 10 * b > 8 * g
               /\ b + g > 2 * r + 80
               /\ hi - lo > 30
          [] OTHER -> FALSE

\* rgb_image is the sequence of the image's rows, top row first, each the
\* sequence of its pixels; pixel (x, y) of the source is rgb_image[y + 1][x + 1]
shape0(rgb_image) == Len(rgb_image)
shape1(rgb_image) == IF rgb_image = <<>> THEN 0 ELSE Len(rgb_image[1])

\* CandleStrategyAnalyzer.detect_color_at_position, lines 205-217
detect_color_at_position(rgb_image, color_name, x, y) ==
    IF x < 0 \/ x >= shape1(rgb_image) \/ y < 0 \/ y >= shape0(rgb_image)
    THEN FALSE
    ELSE color_rules(color_name, rgb_image[y + 1][x + 1])

\* Faulty variant of validate_horizontal_line: columns that fall outside the
\* image are skipped.
validate_horizontal_line_clipped(rgb_image, color_name, x, y) ==
    /\ ~(x < 0 \/ x >= shape1(rgb_image) \/ y < 0 \/ y >= shape0(rgb_image))
    /\ \A dx \in 1..pixels_range :
          /\ x - dx >= 0 => detect_color_at_position(rgb_image, color_name, x - dx, y)
          /\ x + dx < shape1(rgb_image)
                => detect_color_at_position(rgb_image, color_name, x + dx, y)

\* CandleStrategyAnalyzer.validate_horizontal_line, lines 219-261
validate_horizontal_line(rgb_image, color_name, x, y) ==
    LET width       == shape1(rgb_image)
        left_valid  == \A dx \in 1..pixels_range :
                          /\ x - dx >= 0
                          /\ detect_color_at_position(rgb_image, color_name, x - dx, y)
        right_valid == \A dx \in 1..pixels_range :
                          /\ x + dx < width
                          /\ detect_color_at_position(rgb_image, color_name, x + dx, y)
    IN  IF x < 0 \/ x >= shape1(rgb_image) \/ y < 0 \/ y >= shape0(rgb_image)
        THEN FALSE
        ELSE left_valid /\ right_valid

\* lines 267-273: the rows a scan in this direction visits
y_range(height, direction) ==
    IF direction = "down" THEN (height \div 2)..(height - 1)
    ELSE IF direction = "up" THEN 0..(height \div 2 - 1)
    ELSE 0..(height - 1)

\* Faulty variant of scan_vertical_line_for_colors: the colour of the first
\* row that shows one of the colours.
scan_vertical_line_for_colors_by_row(rgb_image, x, colors, direction) ==
    LET rows == {y \in y_range(shape0(rgb_image), direction) :
                    \E k \in 1..Len(colors) :
                       detect_color_at_position(rgb_image, colors[k], x, y)}
        y0   == CHOOSE y \in rows : \A z \in rows : y <= z
    IN  IF rows = {} THEN "none"
        ELSE colors[CHOOSE k \in 1..Len(colors) :
                      /\ detect_color_at_position(rgb_image, colors[k], x, y0)
                      /\ \A j \in 1..(k - 1) :
                            ~detect_color_at_position(rgb_image, colors[j], x, y0)]

\* CandleStrategyAnalyzer.scan_vertical_line_for_colors, lines 263-293:
\* color_detections[color] is the list of rows where the colour shows; the
\* first colour of the list colors with a detection is returned
scan_vertical_line_for_colors(rgb_image, x, colors, direction) ==
    LET color_detections(color) ==
            {y \in y_range(shape0(rgb_image), direction) :
                detect_color_at_position(rgb_image, color, x, y)}
        found == {k \in 1..Len(colors) : color_detections(colors[k]) # {}}
    IN  IF found = {} THEN "none"
        ELSE colors[CHOOSE k \in found : \A j \in found : k <= j]

\* CandleStrategyAnalyzer.analyze_stm_signal, lines 295-306
analyze_stm_signal(rgb_image, candle_x) ==
    LET color_found == scan_vertical_line_for_colors(rgb_image, candle_x,
                                                     <<"orange", "purple">>, "down")
    IN  IF color_found = "orange" THEN "buy"
        ELSE IF color_found = "purple" THEN "sell"
        ELSE "none"

\* CandleStrategyAnalyzer.analyze_horizontal_line_signal, lines 364-418
analyze_horizontal_line_signal(rgb_image, candle_x) ==
    LET height         == shape0(rgb_image)
        aqua_pixels    == {y \in 0..(height - 1) :
                              detect_color_at_position(rgb_image, "aqua", candle_x, y)}
        fuchsia_pixels == {y \in 0..(height - 1) :
                              /\ ~detect_color_at_position(rgb_image, "aqua", candle_x, y)
                              /\ detect_color_at_position(rgb_image, "fuchsia", candle_x, y)}
    IN  IF aqua_pixels = {} /\ fuchsia_pixels = {} THEN "none"
        ELSE IF \E y \in fuchsia_pixels :
                   validate_horizontal_line(rgb_image, "fuchsia", candle_x, y)
        THEN "buy"
        ELSE IF \E y \in aqua_pixels :
                   validate_horizontal_line(rgb_image, "aqua", candle_x, y)
        THEN "sell"
        ELSE "none"

\* CandleStrategyAnalyzer.run_analysis, lines 420-463.  loads says whether
\* load_image succeeds; stm, td and zigzag are what analyze_stm_signal,
\* analyze_td_signal and analyze_horizontal_line_signal find in the image
\* at the column they are given.
NoSignals == [STM |-> "none", TD |-> "none", Zigzag |-> "none"]

run_analysis(a, loads, stm, td, zigzag) ==
    LET a1               == detect_candles(a)
        second_rightmost == get_second_rightmost_candle(a1.candle_positions)
    IN  IF ~loads
        THEN [a EXCEPT !.pc = "done", !.error = "Failed to load image"]
        ELSE IF segments_of(a.image) = <<>> \/ a1.candle_positions = <<>>
        THEN [a1 EXCEPT !.pc = "done", !.error = "No candles detected"]
        ELSE IF second_rightmost = NoCandle
        THEN [a1 EXCEPT !.pc = "done", !.error = "Cannot find second rightmost candle"]
        ELSE [a1 EXCEPT !.pc = "done",
                        !.candle_x = <<second_rightmost.center>>,
                        !.scanned = <<second_rightmost.center, second_rightmost.center,
                                      second_rightmost.center>>,
                        !.results = [STM |-> stm, TD |-> td, Zigzag |-> zigzag]]

\* CandleStrategyAnalyzer.__init__, lines 14-32
new_analyzer(image) ==
    [pc |-> "new", image |-> image, candle_positions |-> <<>>, candle_width |-> NoWidth,
     candle_x |-> <<>>, scanned |-> <<>>, results |-> NoSignals, error |-> ""]

NoAnalyzer == [pc |-> "none"]

(***************************************************************************)
(* IBApiApp's order tracking, for the order in flight: order_status,       *)
(* filled_orders and order_events of its order id, the historical-bar      *)
(* buffer and event of the request in flight, and call, the manager call   *)
(* that is blocked on them.                                                *)
(***************************************************************************)
NoCall == [pc |-> "idle"]

NoApp == [order_status |-> "none", filled_orders |-> NoneFill, fill_time |-> 0,
          order_events |-> "absent", hist_data |-> <<>>, hist_events |-> "absent",
          call |-> NoCall]

\* IBApiApp.orderStatus, lines 161-191
orderStatus(a, status, filled, avgFillPrice, t) ==
    LET a1 == [a EXCEPT !.order_status = status]
    IN  IF status = "Filled" /\ filled > 0
        THEN [a1 EXCEPT !.filled_orders = [status |-> "Filled",
                                           avg_fill_price |-> avgFillPrice],
                        !.fill_time = t,
                        !.order_events = IF @ = "absent" THEN "absent" ELSE "set"]
        ELSE a1

\* IBApiApp.historicalData, lines 136-150, and historicalDataEnd, lines
\* 152-158
historicalData(a, bar) == [a EXCEPT !.hist_data = Append(@, bar)]
historicalDataEnd(a) ==
    [a EXCEPT !.hist_events = IF @ = "absent" THEN "absent" ELSE "set"]

\* lines 661-665: what calculate_fibonacci_levels reads of the bars
bars_outcome(data) ==
    IF data = <<>> THEN NoBars
    ELSE [kind |-> "bars",
          low  |-> CHOOSE l \in {data[i].low : i \in 1..Len(data)} :
                       \A i \in 1..Len(data) : l <= data[i].low,
          high |-> CHOOSE h \in {data[i].high : i \in 1..Len(data)} :
                       \A i \in 1..Len(data) : h >= data[i].high]

(***************************************************************************)
(* State after construction: IBTradingManager.__init__ and connect(), for  *)
(* the symbol list syms and with or without a broker connection.           *)
(***************************************************************************)
NoFib == [entry_price |-> 0, signal_type |-> "none", confidence |-> 0,
          bars |-> [kind |-> "none", low |-> 0, high |-> 0], conn |-> None,
          take_profit |-> 0, stop_loss |-> 0]

InitOf(syms, conns) ==
    /\ all_symbols = syms
    /\ ib \in conns
    /\ current_positions = [s \in Symbols |-> NonePos]
    /\ current_capital = init_capital * 10
    /\ ledger = <<>>
    /\ GLOBAL_PRICE_CACHE = [s \in contracts |-> NonePrice]
    /\ symbol_to_price = [s \in Symbols |-> [last |-> NonePrice, close |-> NonePrice]]
    /\ now = 0
    /\ task = [w \in Workers |-> Idle]
    /\ last = [op |-> "init", symbol |-> None, ret |-> None]
    /\ log = <<>>
    /\ submitted = <<>>
    /\ fib = NoFib
    /\ analyzer = NoAnalyzer
    /\ app = NoApp

\* The handler's effects become the next state.
Commit(M) ==
    /\ current_positions' = M.pos
    /\ current_capital' = M.cap
    /\ ledger' = M.led
    /\ now' = M.now
    /\ log' = M.log
    /\ submitted' = M.sub

AllIdle == \A w \in Workers : task[w] = Idle

TickPrice(reqId, tickType, price) ==
    /\ tickPrice(reqId, tickType, price)
    /\ last' = [op |-> "tickPrice", symbol |-> reqId_to_symbol(reqId), ret |-> None]
    /\ log' = <<>>
    /\ submitted' = <<>>
    /\ UNCHANGED <<all_symbols, ib, current_positions, current_capital, ledger, now,
                   task, fib, analyzer, app>>

\* One second passes.
Tick ==
    /\ now < MaxClock
    /\ now' = now + 1
    /\ last' = [op |-> "tick", symbol |-> None, ret |-> None]
    /\ log' = <<>>
    /\ submitted' = <<>>
    /\ UNCHANGED <<all_symbols, ib, current_positions, current_capital, ledger,
                   GLOBAL_PRICE_CACHE, symbol_to_price, task, fib, analyzer, app>>

\* A direct call close_position(symbol) with the default reason.
ClosePosition(symbol, b, mh) ==
    /\ AllIdle
    /\ Commit(close_position(Manager, symbol, "Manual Close", b, mh))
    /\ last' = [op |-> "close_position", symbol |-> symbol, ret |-> None, b |-> b]
    /\ UNCHANGED <<all_symbols, ib, GLOBAL_PRICE_CACHE, symbol_to_price, task, fib, analyzer, app>>

\* The exit sweep of the main loop, lines 1724-1732.
CheckExitConditions(bs, mh) ==
    /\ AllIdle
    /\ Commit(check_exit_conditions(Manager, bs, mh))
    /\ last' = [op |-> "check_exit_conditions", symbol |-> None, ret |-> None, bs |-> bs]
    /\ UNCHANGED <<all_symbols, ib, GLOBAL_PRICE_CACHE, symbol_to_price, task, fib, analyzer, app>>

\* The daily close-out of the main loop, lines 1714-1720.
CloseAllPositionsDaily(bs, mh) ==
    /\ AllIdle
    /\ Commit(close_all_positions_daily(Manager, bs, mh))
    /\ last' = [op |-> "close_all_positions_daily", symbol |-> None, ret |-> None,
                bs |-> bs]
    /\ UNCHANGED <<all_symbols, ib, GLOBAL_PRICE_CACHE, symbol_to_price, task, fib, analyzer, app>>

(***************************************************************************)
(* process_single_image, lines 1464-1526, run by a pool worker.  error     *)
(* says that crop / OCR / run_analysis failed; otherwise al is the result  *)
(* of check_signal_alignment on the three signals read for symbol.  The    *)
(* task has two steps, one per manager call it makes: lines 1476-1508      *)
(* (alignment, price, handle_opposite_signal, the check of the symbol's    *)
(* position) and lines 1510-1520 (place_order and the report of its        *)
(* result).                                                                *)
(***************************************************************************)
AlignmentResults ==
    {check_signal_alignment(stm, td, zigzag) :
        stm \in Signals, td \in Signals, zigzag \in Signals}

EntryCount == Cardinality({i \in 1..Len(ledger) : ledger[i].action = "ENTRY"})
PendingCount == Cardinality({w \in Workers : task[w] # Idle})

\* whether process_single_image reaches handle_opposite_signal
ReachesManager(symbol, error, al) ==
    /\ ~error
    /\ symbol \in Symbols
    /\ al.is_aligned
    /\ get_current_price(symbol) # NonePrice

ProcessSingleImage(w, symbol, error, al, b, mh) ==
    /\ task[w] = Idle
    /\ IF ~ReachesManager(symbol, error, al)
       THEN /\ Commit(Manager)
            /\ task' = task
       ELSE LET current_price == get_current_price(symbol)
                M1 == handle_opposite_signal(Manager, symbol, al.signal_type, b, mh)
                current_position == M1.pos[symbol]
                places == IF current_position = NonePos THEN TRUE
                          ELSE current_position.signal_type # al.signal_type
            IN  /\ Commit(M1)
                /\ task' = [task EXCEPT ![w] =
                        IF places
                        THEN [pc |-> "place_order", symbol |-> symbol,
                              signal_type |-> al.signal_type,
                              entry_price |-> current_price[1],
                              confidence |-> al.confidence,
                              seen |-> current_position]
                        ELSE Idle]
    /\ last' = [op |-> "process_single_image", symbol |-> symbol,
                ret |-> IF error THEN "error" ELSE "results", b |-> b,
                signal_type |-> IF ReachesManager(symbol, error, al)
                                THEN al.signal_type ELSE "none"]
    /\ UNCHANGED <<all_symbols, ib, GLOBAL_PRICE_CACHE, symbol_to_price, fib, analyzer, app>>

PlaceOrder(w, b, mh, bars, suffix) ==
    /\ task[w] # Idle
    /\ LET t  == task[w]
           M1 == place_order(Manager, t.symbol, t.signal_type, t.entry_price,
                             t.confidence, b, mh, bars, suffix)
           M2 == IF M1.ret = "True" THEN Logged(M1, "TRADE EXECUTED", t.symbol)
                                    ELSE Logged(M1, "TRADE FAILED", t.symbol)
       IN  /\ Commit(M2)
           /\ last' = [op |-> "place_order", symbol |-> t.symbol, ret |-> M2.ret,
                       b |-> b, entry_price |-> t.entry_price]
    /\ task' = [task EXCEPT ![w] = Idle]
    /\ UNCHANGED <<all_symbols, ib, GLOBAL_PRICE_CACHE, symbol_to_price, fib, analyzer, app>>

(***************************************************************************)
(* The steps of the program, for given sets of inputs: the workers W that  *)
(* run tasks, the broker behaviours B, the market-hours flags MH, the bar  *)
(* outcomes BARS and the trade-id suffixes SFX.                            *)
(***************************************************************************)
NoBroker == [submit |-> "raise", status |-> "none", avgFillPrice |-> 0]

\* whether the exit sweep closes the i-th symbol
SweepCloses(i) ==
    LET p == current_positions[all_symbols[i]]
        c == get_current_price(all_symbols[i])
    IN  IF p = NonePos \/ c = NonePrice THEN FALSE ELSE exit_reason(p, c[1]) # None

\* one broker behaviour per order that a sweep submits
SweepOutcomes(B, closing) ==
    {bs \in [1..Len(all_symbols) -> B \cup {NoBroker}] :
        \A i \in 1..Len(all_symbols) :
            IF i \in closing THEN bs[i] \in B ELSE bs[i] = NoBroker}

DailyCloses(i) == current_positions[all_symbols[i]] # NonePos

\* A direct call place_order(symbol, signal_type, entry_price, ...) by a
\* caller that, like process_single_image and test_trade_aapl.py, enters
\* only a symbol it holds no position in.
PlaceOrderCall(symbol, signal_type, entry_price, confidence, b, mh, bars, suffix) ==
    /\ AllIdle
    /\ symbol \in Symbols => current_positions[symbol] = NonePos
    /\ LET M1 == place_order(Manager, symbol, signal_type, entry_price, confidence,
                             b, mh, bars, suffix)
       IN  /\ Commit(M1)
           /\ last' = [op |-> "place_order", symbol |-> symbol, ret |-> M1.ret,
                       b |-> b, entry_price |-> entry_price,
                       signal_type |-> signal_type, confidence |-> confidence,
                       bars |-> bars]
    /\ UNCHANGED <<all_symbols, ib, GLOBAL_PRICE_CACHE, symbol_to_price, task, fib, analyzer, app>>

WorkerSteps(W, MT, B, MH, BARS, SFX) ==
    \/ \E w \in W, symbol \in Symbols \cup {Untracked}, error \in BOOLEAN,
          al \in AlignmentResults :
            /\ EntryCount + PendingCount < MT
            /\ IF ReachesManager(symbol, error, al) /\ current_positions[symbol] # NonePos
               THEN \E b \in B, mh \in MH : ProcessSingleImage(w, symbol, error, al, b, mh)
               ELSE ProcessSingleImage(w, symbol, error, al, NoBroker, TRUE)
    \/ \E w \in W, b \in B, mh \in MH, bars \in BARS, suffix \in SFX :
            PlaceOrder(w, b, mh, bars, suffix)

DirectCloses(B, MH) ==
    \E symbol \in Symbols \cup {Untracked} :
        IF symbol \in Symbols /\ get_current_price(symbol) # NonePrice
        THEN \E b \in B, mh \in MH : ClosePosition(symbol, b, mh)
        ELSE ClosePosition(symbol, NoBroker, TRUE)

MainSteps(B, MH) ==
    \/ DirectCloses(B, MH)
    \/ \E bs \in SweepOutcomes(B, {i \in 1..Len(all_symbols) : SweepCloses(i)}),
          mh \in MH : CheckExitConditions(bs, mh)
    \/ \E bs \in SweepOutcomes(B, {i \in 1..Len(all_symbols) : DailyCloses(i)}),
          mh \in MH : CloseAllPositionsDaily(bs, mh)

DirectEntries(MT, DIRS, REF, CONF, B, MH, BARS, SFX) ==
    \E symbol \in Symbols \cup {Untracked}, signal_type \in DIRS,
       entry_price \in REF, confidence \in CONF,
       b \in B, mh \in MH, bars \in BARS, suffix \in SFX :
        /\ EntryCount < MT
        /\ PlaceOrderCall(symbol, signal_type, entry_price, confidence, b, mh, bars, suffix)

PriceTicks(TT) ==
    \E reqId \in ReqIds, tickType \in TT, price \in 0..MaxPrice :
        TickPrice(reqId, tickType, price)

Callbacks(TT) ==
    \/ PriceTicks(TT)
    \/ Tick

(***************************************************************************)
(* Spec: the manager's operations called one at a time on a manager of one *)
(* symbol: place_order on a symbol without a position, close_position, the *)
(* exit sweep, the daily close-out; price ticks arrive at any moment.      *)
(***************************************************************************)
Init == InitOf(<<"AAPL">>, {None, "conn"})

Next ==
    \/ DirectEntries(MaxTrades, Directions, Prices, {Quarters \div 2, Quarters},
                     BrokerOutcomes, BOOLEAN, BarOutcomes, {RandLo})
    \/ MainSteps(BrokerOutcomes, BOOLEAN)
    \/ PriceTicks({TICK_LAST})

Spec == Init /\ [][Next]_vars

(***************************************************************************)
(* SpecFib: calculate_fibonacci_levels called on a manager with or without *)
(* a connection, for every entry price, direction, confidence 0, 0.25, ... *)
(* 1 and outcome of the bar request over 1..MaxFibPrice, and for the       *)
(* scenario entry 100 with lookback low 95 and high 110.                   *)
(***************************************************************************)
ScenarioEntry == 100
ScenarioBars == [kind |-> "bars", low |-> 95, high |-> 110]
FibPrices == (1..MaxFibPrice) \cup {ScenarioEntry}
FibBars == BarOutcomesOver(1..MaxFibPrice) \cup {ScenarioBars}

CalculateFibonacciLevels(entry_price, signal_type, confidence, bars) ==
    /\ LET lv == calculate_fibonacci_levels(ib, entry_price, signal_type, confidence, bars)
       IN  fib' = [entry_price |-> entry_price, signal_type |-> signal_type,
                   confidence |-> confidence, bars |-> bars, conn |-> ib,
                   take_profit |-> lv[1], stop_loss |-> lv[2]]
    /\ last' = [op |-> "calculate_fibonacci_levels", symbol |-> None, ret |-> None]
    /\ log' = <<>>
    /\ submitted' = <<>>
    /\ UNCHANGED <<all_symbols, ib, current_positions, current_capital, ledger,
                   GLOBAL_PRICE_CACHE, symbol_to_price, now, task, analyzer, app>>

InitFib == InitOf(<<"AAPL">>, {None, "conn"})

NextFib ==
    \E entry_price \in FibPrices, signal_type \in Directions,
       confidence \in 0..Quarters, bars \in FibBars :
        CalculateFibonacciLevels(entry_price, signal_type, confidence, bars)

SpecFib == InitFib /\ [][NextFib]_vars

(***************************************************************************)
(* The broker behaviours, bar outcomes and tick types of the program-level *)
(* specifications.                                                         *)
(***************************************************************************)
FilledAtOne == [submit |-> "ok", status |-> "Filled", avgFillPrice |-> 1]
Timeout == [submit |-> "ok", status |-> "none", avgFillPrice |-> 0]

(***************************************************************************)
(* SpecSeq: the main loop with one pool worker, so that no two operations  *)
(* overlap: process_single_image tasks one after the other, then the exit  *)
(* sweep, the daily close-out or a close_position call; price ticks arrive *)
(* at any moment.                                                          *)
(***************************************************************************)
InitSeq == InitOf(<<"AAPL">>, {"conn"})

NextSeq ==
    \/ WorkerSteps({1}, MaxEntries, {NoBroker, FilledAtOne, Timeout}, {TRUE}, {NoBars},
                   {RandLo})
    \/ MainSteps({NoBroker, FilledAtOne}, {TRUE})
    \/ Callbacks({TICK_LAST})

SpecSeq == InitSeq /\ [][NextSeq]_vars

(***************************************************************************)
(* SpecConc: the main loop with two pool workers whose tasks may resolve   *)
(* to the same symbol; the sweeps and close_position calls of the main     *)
(* thread run while no task is pending.                                    *)
(***************************************************************************)
InitConc == InitOf(<<"AAPL">>, {"conn"})

NextConc ==
    \/ WorkerSteps(Workers, MaxEntries, {NoBroker, FilledAtOne}, {TRUE}, {NoBars}, {RandLo})
    \/ MainSteps({NoBroker, FilledAtOne}, {TRUE})
    \/ Callbacks({TICK_LAST})

SpecConc == InitConc /\ [][NextConc]_vars

(***************************************************************************)
(* SpecIds: a manager of two symbols whose entries draw their trade ids    *)
(* from the clock and the random suffix; orders fill at once.              *)
(***************************************************************************)
InitIds == InitOf(<<"AAPL", "TSLA">>, {"conn"})

NextIds ==
    \/ DirectEntries(MaxEntries, {"buy"}, {1}, {Quarters}, {FilledAtOne}, {TRUE}, {NoBars},
                     Suffixes)
    \/ MainSteps({FilledAtOne}, {TRUE})
    \/ Callbacks({TICK_LAST})

SpecIds == InitIds /\ [][NextIds]_vars

(***************************************************************************)
(* SpecAlign: check_signal_alignment called on every triple of signals     *)
(* while price ticks arrive and the clock runs.                            *)
(***************************************************************************)
CheckSignalAlignment(stm, td, zigzag) ==
    /\ last' = [op |-> "check_signal_alignment", symbol |-> None, ret |-> None,
                stm |-> stm, td |-> td, zigzag |-> zigzag,
                result |-> check_signal_alignment(stm, td, zigzag)]
    /\ log' = <<>>
    /\ submitted' = <<>>
    /\ UNCHANGED <<all_symbols, ib, current_positions, current_capital, ledger,
                   GLOBAL_PRICE_CACHE, symbol_to_price, now, task, fib, analyzer, app>>

InitAlign == InitOf(<<"AAPL">>, {"conn"})

NextAlign ==
    \/ \E stm \in Signals, td \in Signals, zigzag \in Signals :
          CheckSignalAlignment(stm, td, zigzag)
    \/ Callbacks({TICK_LAST})

SpecAlign == InitAlign /\ [][NextAlign]_vars

(***************************************************************************)
(* SpecIso: the main loop on a manager of two symbols with two pool        *)
(* workers: tasks that fail to read their image, find no cached price or   *)
(* have their order refused run next to tasks of the other symbol, and the *)
(* sweeps of the main thread visit both symbols.                           *)
(***************************************************************************)
InitIso == InitOf(<<"AAPL", "TSLA">>, {"conn"})

NextIso ==
    \/ WorkerSteps(Workers, MaxEntries, {NoBroker, FilledAtOne}, {TRUE}, {NoBars}, {RandLo})
    \/ MainSteps({NoBroker, FilledAtOne}, {TRUE})
    \/ PriceTicks({TICK_LAST})

SpecIso == InitIso /\ [][NextIso]_vars

(***************************************************************************)
(* SpecCandles: process_single_image's use of the analyzer, lines          *)
(* 1479-1480: an analyzer is constructed for an image and run_analysis (or *)
(* detect_candles alone) is called on it once.  The images are all column  *)
(* maps of up to MaxCols columns and the three images below.               *)
(***************************************************************************)
Repeat(c, n) == [i \in 1..n |-> c]
Bar(c, n) == Repeat(c, n) \o <<"none">>

\* 10 segments of width 8 and 2 of width 3
ModalImage ==
    Bar("red", 8) \o Bar("green", 8) \o Bar("red", 3) \o Bar("red", 8) \o Bar("green", 8)
    \o Bar("green", 8) \o Bar("red", 8) \o Bar("green", 3) \o Bar("red", 8)
    \o Bar("red", 8) \o Bar("green", 8) \o Bar("red", 8)

\* red at x = 10..17, red at x = 30..37, green at x = 50..57
ThreeCandleImage ==
    Repeat("none", 10) \o Repeat("red", 8) \o Repeat("none", 12) \o Repeat("red", 8)
    \o Repeat("none", 12) \o Repeat("green", 8)

\* segments of widths 1, 4, 1, 4, 1, 4, 1, 3, 3, 5, 5, 6
MixedImage ==
    Bar("red", 1) \o Bar("green", 4) \o Bar("red", 1) \o Bar("green", 4) \o Bar("red", 1)
    \o Bar("green", 4) \o Bar("red", 1) \o Bar("green", 3) \o Bar("red", 3)
    \o Bar("green", 5) \o Bar("red", 5) \o Bar("green", 6)

\* segments of widths 1, 1, 1, 5, 5, 9
FadingImage ==
    Bar("red", 1) \o Bar("green", 1) \o Bar("red", 1) \o Bar("green", 5) \o Bar("red", 5)
    \o Bar("green", 9)

ColumnColors == {"red", "green", "none"}
Images ==
    UNION {[1..n -> ColumnColors] : n \in 0..MaxCols}
    \cup {ModalImage, ThreeCandleImage, MixedImage, FadingImage}

NewAnalyzer(image) ==
    /\ analyzer = NoAnalyzer
    /\ analyzer' = new_analyzer(image)
    /\ last' = [op |-> "CandleStrategyAnalyzer", symbol |-> None, ret |-> None]
    /\ log' = <<>>
    /\ submitted' = <<>>
    /\ UNCHANGED <<all_symbols, ib, current_positions, current_capital, ledger,
                   GLOBAL_PRICE_CACHE, symbol_to_price, now, task, fib, app>>

DetectCandles ==
    /\ analyzer.pc = "new"
    /\ analyzer' = [detect_candles(analyzer) EXCEPT !.pc = "detected"]
    /\ last' = [op |-> "detect_candles", symbol |-> None, ret |-> None]
    /\ log' = <<>>
    /\ submitted' = <<>>
    /\ UNCHANGED <<all_symbols, ib, current_positions, current_capital, ledger,
                   GLOBAL_PRICE_CACHE, symbol_to_price, now, task, fib, app>>

RunAnalysis(loads, stm, td, zigzag) ==
    /\ analyzer.pc = "new"
    /\ analyzer' = run_analysis(analyzer, loads, stm, td, zigzag)
    /\ last' = [op |-> "run_analysis", symbol |-> None, ret |-> None]
    /\ log' = <<>>
    /\ submitted' = <<>>
    /\ UNCHANGED <<all_symbols, ib, current_positions, current_capital, ledger,
                   GLOBAL_PRICE_CACHE, symbol_to_price, now, task, fib, app>>

InitCandles == InitOf(<<"AAPL">>, {"conn"})

NextCandles ==
    \/ \E image \in Images : NewAnalyzer(image)
    \/ DetectCandles
    \/ \E loads \in BOOLEAN, stm \in Signals, td \in Signals, zigzag \in Signals :
          RunAnalysis(loads, stm, td, zigzag)

SpecCandles == InitCandles /\ [][NextCandles]_vars

(***************************************************************************)
(* SpecWait: one manager call at a time, followed through the places where *)
(* it blocks on the broker: place_order (lines 799-812: ib.place_order,    *)
(* wait_for_fill, then request_historical_5m inside                        *)
(* calculate_fibonacci_levels), close_position (lines 909-913) and         *)
(* check_exit_conditions, which calls close_position for a symbol whose    *)
(* level is crossed.  The connection thread delivers orderStatus,          *)
(* historicalData and historicalDataEnd callbacks, or none, and the clock  *)
(* runs, between any two steps of the call.  When the call has the         *)
(* broker's answers it completes as place_order / close_position do.       *)
(***************************************************************************)
MaxWaitClock == FillTimeout + HistTimeout

\* The clock shows whole ticks.  A tick may fall between any two statements
\* of the call, but a statement is not held up for two ticks; inside
\* request_historical_5m the call sleeps until its timeout.  The clock is
\* followed up to MaxWaitClock, and further while a call waits for a deadline.
Sleeping ==
    IF app.call = NoCall THEN FALSE
    ELSE \/ /\ app.call.pc \in {"while", "poll", "event_wait"}
            /\ now - app.call.start_time < FillTimeout
         \/ /\ app.call.pc = "event_wait"
            /\ now = app.call.wait_start
         \/ /\ app.call.pc = "request_historical_5m"
            /\ now - app.call.wait_start < HistTimeout

TickWait ==
    /\ now < MaxWaitClock \/ Sleeping
    /\ IF app.call = NoCall THEN TRUE
       ELSE \/ ~app.call.stalled
            \/ /\ app.call.pc = "request_historical_5m"
               /\ now - app.call.wait_start < HistTimeout
    /\ now' = now + 1
    /\ app' = IF app.call = NoCall THEN app ELSE [app EXCEPT !.call.stalled = TRUE]
    /\ last' = [op |-> "tick", symbol |-> None, ret |-> None]
    /\ log' = <<>>
    /\ submitted' = <<>>
    /\ UNCHANGED <<all_symbols, ib, current_positions, current_capital, ledger,
                   GLOBAL_PRICE_CACHE, symbol_to_price, task, fib, analyzer>>

\* a step inside a call: only IBApiApp's record and the call move
Inside(a) ==
    /\ app' = a
    /\ last' = [op |-> "step", symbol |-> None, ret |-> None]
    /\ log' = <<>>
    /\ submitted' = <<>>
    /\ UNCHANGED <<all_symbols, ib, current_positions, current_capital, ledger,
                   GLOBAL_PRICE_CACHE, symbol_to_price, now, task, fib, analyzer>>

\* The call returns: the manager's handler takes effect with the broker's
\* answers b and the bars received.
Returns(b, data) ==
    LET c == app.call
        M == IF c.op = "place_order"
             THEN place_order(Manager, c.symbol, c.signal_type, c.entry_price,
                              c.confidence, b, TRUE, bars_outcome(data), RandLo)
             ELSE close_position(Manager, c.symbol, c.reason, b, TRUE)
    IN  /\ Commit(M)
        /\ app' = NoApp
        /\ last' = [op |-> c.op, symbol |-> c.symbol, ret |-> M.ret, b |-> b,
                    entry_price |-> IF c.op = "place_order" THEN c.entry_price ELSE 0,
                    start_time |-> c.start_time, returned |-> now, bars |-> data,
                    order_status |-> app.order_status, hist_events |-> app.hist_events]
        /\ UNCHANGED <<all_symbols, ib, GLOBAL_PRICE_CACHE, symbol_to_price, task, fib,
                       analyzer>>

\* a new order id has no status, fill or event yet
FreshOrder(c) ==
    [NoApp EXCEPT !.call = c]

BeginPlaceOrder(symbol, signal_type, entry_price, confidence) ==
    /\ app.call = NoCall
    /\ current_positions[symbol] = NonePos
    /\ EntryCount < MaxTrades
    /\ Inside(FreshOrder([pc |-> "submit", op |-> "place_order", symbol |-> symbol,
                          signal_type |-> signal_type, entry_price |-> entry_price,
                          confidence |-> confidence, reason |-> "",
                          start_time |-> now, wait_start |-> now,
                          b |-> NoBroker, stalled |-> FALSE]))

BeginClose(op, symbol, reason) ==
    /\ app.call = NoCall
    /\ Inside(FreshOrder([pc |-> "submit", op |-> op, symbol |-> symbol,
                          signal_type |-> "none", entry_price |-> 0,
                          confidence |-> 0, reason |-> reason,
                          start_time |-> now, wait_start |-> now,
                          b |-> NoBroker, stalled |-> FALSE]))

\* close_position(symbol) on an Open symbol with a cached price
BeginClosePosition(symbol) ==
    /\ current_positions[symbol] # NonePos
    /\ get_current_price(symbol) # NonePrice
    /\ BeginClose("close_position", symbol, "Manual Close")

\* check_exit_conditions reaching a symbol whose level is crossed
BeginCheckExitConditions(i) ==
    /\ SweepCloses(i)
    /\ BeginClose("check_exit_conditions", all_symbols[i],
                  exit_reason(current_positions[all_symbols[i]],
                              get_current_price(all_symbols[i])[1]))

\* ib.place_order, lines 346-361: the order is handed to the socket, or
\* placeOrder raises and the call returns through its except branch
Submit(accepted) ==
    /\ app.call.pc = "submit"
    /\ IF accepted
       THEN Inside([app EXCEPT !.call.pc = "wait_for_fill", !.call.stalled = FALSE])
       ELSE Returns(NoBroker, <<>>)

\* wait_for_fill, lines 365-369: the event is created, the clock is read
EnterWaitForFill ==
    /\ app.call.pc = "wait_for_fill"
    /\ Inside([app EXCEPT !.order_events = IF @ = "absent" THEN "clear" ELSE @,
                          !.call.start_time = now,
                          !.call.pc = "while", !.call.stalled = FALSE])

\* what the call does once wait_for_fill has returned with the answers b
AfterWaitForFill(b) ==
    IF app.call.op = "place_order" /\ ib # None
    THEN Inside([app EXCEPT !.call.pc = "request_historical_5m", !.call.b = b,
                            !.call.wait_start = now, !.call.stalled = FALSE,
                            !.hist_data = <<>>, !.hist_events = "clear"])
    ELSE Returns(b, <<>>)

\* line 371: while time.time() - start_time < timeout; lines 387-388 when
\* the deadline has passed
WhileTest ==
    /\ app.call.pc = "while"
    /\ IF now - app.call.start_time < FillTimeout
       THEN Inside([app EXCEPT !.call.pc = "poll", !.call.stalled = FALSE])
       ELSE AfterWaitForFill(Timeout)

\* lines 372-380: the fill if recorded, None on Cancelled / Rejected
Poll ==
    /\ app.call.pc = "poll"
    /\ IF app.filled_orders # NoneFill
       THEN AfterWaitForFill([submit |-> "ok", status |-> "Filled",
                              avgFillPrice |-> app.filled_orders.avg_fill_price])
       ELSE IF app.order_status \in {"Cancelled", "Rejected"}
       THEN AfterWaitForFill([submit |-> "ok", status |-> app.order_status,
                              avgFillPrice |-> 0])
       ELSE Inside([app EXCEPT !.call.pc = "event_wait", !.call.wait_start = now,
                               !.call.stalled = FALSE])

\* lines 383-385: order_events[order_id].wait(0.01) returns True when the
\* event is set, and the fill is returned; it returns False when the time
\* has passed
EventWait ==
    /\ app.call.pc = "event_wait"
    /\ IF app.order_events = "set"
       THEN IF app.filled_orders # NoneFill
            THEN AfterWaitForFill([submit |-> "ok", status |-> "Filled",
                                   avgFillPrice |-> app.filled_orders.avg_fill_price])
            ELSE Inside([app EXCEPT !.call.pc = "while", !.call.stalled = FALSE])
       ELSE /\ now > app.call.wait_start
            /\ Inside([app EXCEPT !.call.pc = "while", !.call.stalled = FALSE])

\* Faulty variant of HistWait: ev.wait() without a timeout.
HistWait_untimed ==
    /\ app.call.pc = "request_historical_5m"
    /\ app.hist_events = "set"
    /\ Returns(app.call.b, app.hist_data)

\* request_historical_5m, lines 268-276: ev.wait returns when
\* historicalDataEnd has set the event or the timeout has passed; the bars
\* received so far are returned
HistWait ==
    /\ app.call.pc = "request_historical_5m"
    /\ app.hist_events = "set" \/ now - app.call.wait_start >= HistTimeout
    /\ Returns(app.call.b, app.hist_data)

\* the connection thread
OrderStatusCallback(status, filled, avgFillPrice) ==
    /\ app.call.pc \notin {"idle", "submit"}
    /\ Inside(orderStatus(app, status, filled, avgFillPrice, now))

HistoricalDataCallback(bar) ==
    /\ app.call.pc = "request_historical_5m"
    /\ app.hist_events = "clear"
    /\ Len(app.hist_data) < 1
    /\ Inside(historicalData(app, bar))

HistoricalDataEndCallback ==
    /\ app.call.pc = "request_historical_5m"
    /\ app.hist_events = "clear"
    /\ Inside(historicalDataEnd(app))

CallSteps ==
    \/ \E accepted \in BOOLEAN : Submit(accepted)
    \/ EnterWaitForFill
    \/ WhileTest
    \/ Poll
    \/ EventWait
    \/ HistWait

CallBegins ==
    \/ \E symbol \in Symbols, signal_type \in Directions, confidence \in {Quarters} :
          BeginPlaceOrder(symbol, signal_type, 1, confidence)
    \/ \E symbol \in Symbols : BeginClosePosition(symbol)
    \/ \E i \in 1..Len(all_symbols) : BeginCheckExitConditions(i)

BrokerCallbacks ==
    \/ \E status \in {"Submitted", "Rejected"} : OrderStatusCallback(status, 0, 0)
    \/ \E filled \in {0, 1} : OrderStatusCallback("Filled", filled, filled)
    \/ HistoricalDataCallback([low |-> 1, high |-> MaxPrice])
    \/ HistoricalDataEndCallback

\* tickPrice between two calls: close_position reads the price cache once,
\* before it submits its order (line 864)
PriceTicksBetweenCalls ==
    \E reqId \in ReqIds, price \in 0..MaxPrice :
        /\ app.call = NoCall
        /\ TickPrice(reqId, TICK_LAST, price)

InitWait == InitOf(<<"AAPL">>, {"conn"})

NextWait ==
    \/ CallBegins
    \/ CallSteps
    \/ BrokerCallbacks
    \/ TickWait
    \/ PriceTicksBetweenCalls

SpecWait == InitWait /\ [][NextWait]_vars

(***************************************************************************)
(* SpecStall: the same calls against a stalled broker.  After submission   *)
(* no orderStatus and no historicalDataEnd callback is delivered; bars may *)
(* have arrived before the connection stalled.  The calling thread and the *)
(* clock keep running.                                                     *)
(***************************************************************************)
NextStall ==
    \/ CallBegins
    \/ CallSteps
    \/ HistoricalDataCallback([low |-> 1, high |-> MaxPrice])
    \/ TickWait
    \/ PriceTicksBetweenCalls

SpecStall == InitWait /\ [][NextStall]_vars /\ WF_vars(CallSteps) /\ WF_vars(TickWait)

(***************************************************************************)
(* SpecSize: managers constructed with a small, a medium or the default    *)
(* init_capital, two symbols, entries placed one after the other and       *)
(* closed again, so that an entry is sized on a capital already reduced by *)
(* the reservation of an open position, or smaller than one share's price. *)
(***************************************************************************)
SizeCapitals == {15, 250, init_capital * 10}     \* in tenths of a dollar

InitSize ==
    /\ all_symbols = <<"AAPL", "TSLA">>
    /\ ib = "conn"
    /\ current_positions = [s \in Symbols |-> NonePos]
    /\ current_capital \in SizeCapitals
    /\ ledger = <<>>
    /\ GLOBAL_PRICE_CACHE = [s \in contracts |-> NonePrice]
    /\ symbol_to_price = [s \in Symbols |-> [last |-> NonePrice, close |-> NonePrice]]
    /\ now = 0
    /\ task = [w \in Workers |-> Idle]
    /\ last = [op |-> "init", symbol |-> None, ret |-> None]
    /\ log = <<>>
    /\ submitted = <<>>
    /\ fib = NoFib
    /\ analyzer = NoAnalyzer
    /\ app = NoApp

NextSize ==
    \/ DirectEntries(MaxEntries, Directions, Prices, {Quarters}, {NoBroker, FilledAtOne},
                     {TRUE}, {NoBars}, {RandLo})
    \/ DirectCloses({FilledAtOne}, {TRUE})
    \/ PriceTicks({TICK_LAST})

SpecSize == InitSize /\ [][NextSize]_vars

(***************************************************************************)
(* SpecHours: one entry and its exit around the opening and the closing of *)
(* the regular session.  The clock is set to the second before 09:30, to   *)
(* 09:30, to the second before 16:00 and to 16:00 US/Eastern, and each     *)
(* order is built for the time the clock shows.                            *)
(***************************************************************************)
HoursTimes == {market_open - 1, market_open, market_close - 1, market_close}

ClockStrikes(t) ==
    /\ t > now
    /\ AllIdle
    /\ now' = t
    /\ last' = [op |-> "tick", symbol |-> None, ret |-> None]
    /\ log' = <<>>
    /\ submitted' = <<>>
    /\ UNCHANGED <<all_symbols, ib, current_positions, current_capital, ledger,
                   GLOBAL_PRICE_CACHE, symbol_to_price, task, fib, analyzer, app>>

InitHours == InitOf(<<"AAPL">>, {"conn"})

NextHours ==
    \/ DirectEntries(MaxTrades, Directions, Prices, {Quarters}, {FilledAtOne},
                     {is_market_hours(now)}, {NoBars}, {RandLo})
    \/ MainSteps({FilledAtOne}, {is_market_hours(now)})
    \/ PriceTicks({TICK_LAST})
    \/ \E t \in HoursTimes : ClockStrikes(t)

SpecHours == InitHours /\ [][NextHours]_vars

(***************************************************************************)
(* SpecPixels: the two column scans of the analyzer that read pixel        *)
(* colours, on small images.  An image has Width columns and 2 or 3 rows;  *)
(* each row is blank or a horizontal band of one palette colour.           *)
(***************************************************************************)
Black   == <<0, 0, 0>>
Aqua    == <<0, 255, 255>>
Fuchsia == <<255, 0, 255>>      \* passes the fuchsia and the purple rules
Orange  == <<255, 128, 0>>
Purple  == <<128, 0, 128>>
Palette == {Aqua, Fuchsia, Orange, Purple}

Width == 2 * pixels_range + 2
Heights == {2, 3}

\* the row with colour rgb in columns lo..hi and rest elsewhere
Band(rgb, lo, hi, rest) ==
    [k \in 1..Width |-> IF lo <= k - 1 /\ k - 1 <= hi THEN rgb ELSE rest]

\* the whole row, the row less its last or first column, and a band one
\* column short of a window on either side
BandSpans == {<<0, Width - 1>>, <<0, Width - 2>>, <<1, Width - 1>>,
              <<2, 2 * pixels_range>>}

PixelRows ==
    {Band(rgb, span[1], span[2], Black) : rgb \in Palette, span \in BandSpans}
    \cup {Band(Black, 0, Width - 1, Black),
          Band(Fuchsia, 0, pixels_range, Aqua)}

PixelImages == UNION {[1..h -> PixelRows] : h \in Heights}

\* CandleStrategyAnalyzer.__init__ and load_image, lines 14-42, when the
\* image loads
LoadImage(rgb_image) ==
    /\ analyzer = NoAnalyzer
    /\ analyzer' = [pc |-> "loaded", rgb_image |-> rgb_image, candle_x |-> <<>>,
                    results |-> NoSignals]
    /\ last' = [op |-> "load_image", symbol |-> None, ret |-> None]
    /\ log' = <<>>
    /\ submitted' = <<>>
    /\ UNCHANGED <<all_symbols, ib, current_positions, current_capital, ledger,
                   GLOBAL_PRICE_CACHE, symbol_to_price, now, task, fib, app>>

AnalyzeStmSignal(candle_x) ==
    /\ analyzer.pc = "loaded"
    /\ analyzer' = [analyzer EXCEPT
                      !.pc = "stm",
                      !.candle_x = <<candle_x>>,
                      !.results.STM = analyze_stm_signal(analyzer.rgb_image, candle_x)]
    /\ last' = [op |-> "analyze_stm_signal", symbol |-> None, ret |-> None]
    /\ log' = <<>>
    /\ submitted' = <<>>
    /\ UNCHANGED <<all_symbols, ib, current_positions, current_capital, ledger,
                   GLOBAL_PRICE_CACHE, symbol_to_price, now, task, fib, app>>

AnalyzeHorizontalLineSignal(candle_x) ==
    /\ analyzer.pc = "loaded"
    /\ analyzer' = [analyzer EXCEPT
                      !.pc = "zigzag",
                      !.candle_x = <<candle_x>>,
                      !.results.Zigzag =
                          analyze_horizontal_line_signal(analyzer.rgb_image, candle_x)]
    /\ last' = [op |-> "analyze_horizontal_line_signal", symbol |-> None, ret |-> None]
    /\ log' = <<>>
    /\ submitted' = <<>>
    /\ UNCHANGED <<all_symbols, ib, current_positions, current_capital, ledger,
                   GLOBAL_PRICE_CACHE, symbol_to_price, now, task, fib, app>>

InitPixels == InitOf(<<"AAPL">>, {"conn"})

NextPixels ==
    \/ \E rgb_image \in PixelImages : LoadImage(rgb_image)
    \/ \E candle_x \in 0..(Width - 1) : AnalyzeStmSignal(candle_x)
    \/ \E candle_x \in 0..(Width - 1) : AnalyzeHorizontalLineSignal(candle_x)

SpecPixels == InitPixels /\ [][NextPixels]_vars

(***************************************************************************)
(* SpecTicks: the price stream of two subscribed symbols.  Ticks of every  *)
(* type 0..TICK_CLOSE arrive with positive and non-positive prices, under  *)
(* the request ids of the subscriptions and under one unknown id; the      *)
(* manager reads the cache at any moment.                                  *)
(***************************************************************************)
TickTypes == 0..TICK_CLOSE
TickPrices == (-1)..MaxPrice

GetCurrentPrice(symbol) ==
    /\ last' = [op |-> "get_current_price", symbol |-> symbol,
                ret |-> get_current_price(symbol)]
    /\ log' = <<>>
    /\ submitted' = <<>>
    /\ UNCHANGED <<all_symbols, ib, current_positions, current_capital, ledger,
                   GLOBAL_PRICE_CACHE, symbol_to_price, now, task, fib, analyzer, app>>

InitTicks == InitOf(<<"AAPL", "TSLA">>, {"conn"})

NextTicks ==
    \/ \E reqId \in ReqIds, tickType \in TickTypes, price \in TickPrices :
          TickPrice(reqId, tickType, price)
    \/ \E symbol \in Symbols \cup {Untracked} : GetCurrentPrice(symbol)

SpecTicks == InitTicks /\ [][NextTicks]_vars

(***************************************************************************)
(* SpecOrderIds: IBApiApp.place_order called by the pool workers at the    *)
(* same time, statement by statement, and the nextValidId callback of the  *)
(* connection thread.  The gateway delivers nextValidId at the handshake;  *)
(* the program never asks for another (it makes no reqIds call).  app      *)
(* holds next_order_id, the owner of _lock, and two histories: handed, the *)
(* ids read at line 354 in the order they were read, and placed, the ids   *)
(* passed to placeOrder at line 357.  calls counts the calls begun.        *)
(***************************************************************************)
NoOwner == 0
NoneId == <<>>

IdApp == [next_order_id |-> NoneId, _lock |-> NoOwner, handed |-> <<>>, placed |-> <<>>,
          calls |-> 0]

\* Faulty variant of lock_is_free: the lock is never waited for.
lock_is_free_always(a) == TRUE

\* line 353: with self._lock is entered when no thread holds the lock
lock_is_free(a) == a._lock = NoOwner

IdStep(w, t, a, op, ret) ==
    /\ task' = [task EXCEPT ![w] = t]
    /\ app' = a
    /\ last' = [op |-> op, symbol |-> None, ret |-> ret]
    /\ log' = <<>>
    /\ submitted' = <<>>
    /\ UNCHANGED <<all_symbols, ib, current_positions, current_capital, ledger,
                   GLOBAL_PRICE_CACHE, symbol_to_price, now, fib, analyzer>>

\* IBApiApp.nextValidId, lines 97-99
NextValidId(orderId) ==
    /\ app.next_order_id = NoneId
    /\ app' = [app EXCEPT !.next_order_id = <<orderId>>]
    /\ last' = [op |-> "nextValidId", symbol |-> None, ret |-> None]
    /\ log' = <<>>
    /\ submitted' = <<>>
    /\ UNCHANGED <<all_symbols, ib, current_positions, current_capital, ledger,
                   GLOBAL_PRICE_CACHE, symbol_to_price, now, task, fib, analyzer>>

\* line 348: the call begins
OrderCallBegins(w) ==
    /\ task[w] = Idle
    /\ app.calls < MaxOrders
    /\ IdStep(w, [pc |-> "wait", start |-> now], [app EXCEPT !.calls = @ + 1],
              "place_order", None)

\* lines 349-352: the loop ends when an id is there or 5 s have passed; the
\* call raises when there is still none
OrderWaitEnds(w) ==
    /\ task[w].pc = "wait"
    /\ IF app.next_order_id # NoneId
       THEN IdStep(w, [pc |-> "lock"], app, "place_order", None)
       ELSE /\ now - task[w].start >= IdTimeout
            /\ IdStep(w, Idle, app, "place_order", "RuntimeError")

\* line 353
OrderLockAcquired(w) ==
    /\ task[w].pc = "lock"
    /\ lock_is_free(app)
    /\ IdStep(w, [pc |-> "read"], [app EXCEPT !._lock = w], "place_order", None)

\* line 354
OrderIdRead(w) ==
    /\ task[w].pc = "read"
    /\ IdStep(w, [pc |-> "incr", order_id |-> app.next_order_id[1]],
              [app EXCEPT !.handed = Append(@, app.next_order_id[1])],
              "place_order", None)

\* line 355, and the lock is released
OrderIdIncremented(w) ==
    /\ task[w].pc = "incr"
    /\ IdStep(w, [pc |-> "send", order_id |-> task[w].order_id],
              [app EXCEPT !.next_order_id = <<@[1] + 1>>, !._lock = NoOwner],
              "place_order", None)

\* lines 356-361
OrderSent(w) ==
    /\ task[w].pc = "send"
    /\ IdStep(w, Idle, [app EXCEPT !.placed = Append(@, task[w].order_id)],
              "place_order", <<task[w].order_id>>)

InitOrderIds ==
    /\ all_symbols = <<"AAPL">>
    /\ ib = "conn"
    /\ current_positions = [s \in Symbols |-> NonePos]
    /\ current_capital = init_capital * 10
    /\ ledger = <<>>
    /\ GLOBAL_PRICE_CACHE = [s \in contracts |-> NonePrice]
    /\ symbol_to_price = [s \in Symbols |-> [last |-> NonePrice, close |-> NonePrice]]
    /\ now = 0
    /\ task = [w \in Workers |-> Idle]
    /\ last = [op |-> "init", symbol |-> None, ret |-> None]
    /\ log = <<>>
    /\ submitted = <<>>
    /\ fib = NoFib
    /\ analyzer = NoAnalyzer
    /\ app = IdApp

NextOrderIds ==
    \/ \E orderId \in 1..MaxFirstId : NextValidId(orderId)
    \/ \E w \in Workers :
          \/ OrderCallBegins(w)
          \/ OrderWaitEnds(w)
          \/ OrderLockAcquired(w)
          \/ OrderIdRead(w)
          \/ OrderIdIncremented(w)
          \/ OrderSent(w)
    \/ Tick

SpecOrderIds == InitOrderIds /\ [][NextOrderIds]_vars

(***************************************************************************)
(* SpecDaily: the daily close-out on a manager of two symbols.  Entries    *)
(* are placed directly, with and without a cached price; the broker takes  *)
(* or refuses each closing order of the sweep.                             *)
(***************************************************************************)
InitDaily == InitOf(<<"AAPL", "TSLA">>, {"conn"})

NextDaily ==
    \/ DirectEntries(MaxEntries, Directions, {1}, {Quarters}, {FilledAtOne}, {TRUE}, {NoBars},
                     {RandLo})
    \/ \E bs \in SweepOutcomes({NoBroker, FilledAtOne, Timeout},
                               {i \in 1..Len(all_symbols) : DailyCloses(i)}) :
          CloseAllPositionsDaily(bs, TRUE)
    \/ PriceTicks({TICK_LAST})

SpecDaily == InitDaily /\ [][NextDaily]_vars

(***************************************************************************)
(* Properties.  A step is recognised by what it leaves in last', log' and  *)
(* submitted'; its pre-state is read from the unprimed variables.          *)
(***************************************************************************)
HasMsg(lg, msg) == \E i \in 1..Len(lg) : lg[i].msg = msg

IsOpen(symbol) ==
    /\ symbol \in DOMAIN current_positions
    /\ current_positions[symbol] # NonePos

\* the price cache has no usable price for symbol: missing, None or <= 0
CacheAbsent(symbol) ==
    \/ symbol \notin DOMAIN GLOBAL_PRICE_CACHE
    \/ GLOBAL_PRICE_CACHE[symbol] = NonePrice
    \/ GLOBAL_PRICE_CACHE[symbol] # NonePrice /\ GLOBAL_PRICE_CACHE[symbol][1] <= 0

FrameUnchanged == UNCHANGED <<current_positions, current_capital, ledger>>

\* C2: a submitted order that the broker reports Rejected or Cancelled
\* leaves the symbol's position, the capital and the ledger as they were:
\* a refused entry leaves the symbol Flat with no ENTRY row and nothing
\* reserved, a refused exit leaves it Open with no EXIT row.
C2_RefusedOrderChangesNothing ==
    [][ (/\ last'.op \in {"place_order", "close_position"}
         /\ submitted' # <<>>
         /\ last'.b.status \in {"Rejected", "Cancelled"})
        => FrameUnchanged ]_vars

\* C4: close_position on a symbol that is Flat (its position is None, or
\* the symbol is untracked) is a no-op: no error is logged, no order is
\* submitted, no ledger row is appended, and current_positions and
\* current_capital are unchanged.
C4_CloseOnFlatIsNoOp ==
    [][ (last'.op = "close_position" /\ ~IsOpen(last'.symbol))
        => /\ FrameUnchanged
           /\ submitted' = <<>>
           /\ ~HasMsg(log', "Error closing position")
           /\ ~HasMsg(log', "Cannot get current price") ]_vars

\* reached: close_position has just returned on a tracked Flat symbol that
\* traded before
C4_Witness ==
    /\ last.op = "close_position"
    /\ last.symbol \in Symbols
    /\ HasMsg(log, "No position to close")
    /\ ledger # <<>>

\* C5: close_position on an Open symbol whose cached price is absent
\* aborts without effect: no order is submitted, no row is appended, the
\* Position and current_capital are unchanged.  With a price available and
\* the broker accepting the order, the same call closes the position: the
\* symbol becomes Flat and exactly one EXIT row, carrying the position's
\* trade_id, is appended.
C5_CloseWithoutPriceAborts ==
    [][ (last'.op = "close_position" /\ IsOpen(last'.symbol))
        => LET symbol == last'.symbol
               p      == current_positions[symbol]
           IN  IF CacheAbsent(symbol)
               THEN FrameUnchanged /\ submitted' = <<>>
               ELSE (ib # None /\ last'.b.submit = "ok")
                    => /\ current_positions'[symbol] = NonePos
                       /\ Len(ledger') = Len(ledger) + 1
                       /\ SubSeq(ledger', 1, Len(ledger)) = ledger
                       /\ ledger'[Len(ledger')].action = "EXIT"
                       /\ ledger'[Len(ledger')].symbol = symbol
                       /\ ledger'[Len(ledger')].trade_id = p.trade_id ]_vars

\* reached: close_position has just aborted on an Open symbol for lack of a
\* price
C5_Witness ==
    /\ last.op = "close_position"
    /\ IsOpen(last.symbol)
    /\ CacheAbsent(last.symbol)
    /\ HasMsg(log, "Cannot get current price")

\* C6: when the submission of the order fails inside place_order or
\* close_position (ib.place_order raises, or there is no connection), the
\* position, the capital and the ledger are exactly as before the call, and
\* place_order returns False.
C6_FailedSubmissionChangesNothing ==
    [][ (/\ last'.op \in {"place_order", "close_position"}
         /\ (ib = None \/ last'.b.submit = "raise"))
        => /\ FrameUnchanged
           /\ submitted' = <<>>
           /\ last'.op = "place_order" => last'.ret = "False" ]_vars

\* reached: ib.place_order has just raised inside close_position on an
\* Open symbol
C6_Witness ==
    /\ last.op = "close_position"
    /\ last.b.submit = "raise"
    /\ IsOpen(last.symbol)
    /\ HasMsg(log, "placeOrder failed")
    /\ HasMsg(log, "Error closing position")

\* place_order(symbol, ...) has just submitted an order for which no fill
\* and no refusal arrived before the deadline
EntryTimedOut ==
    /\ last.op = "place_order"
    /\ ib # None
    /\ last.symbol \in Symbols
    /\ last.b.submit = "ok"
    /\ last.b.status = "none"

\* C7: when no fill arrives for the entry order before the deadline, the
\* Position is still created; the entry_price recorded in the Position and
\* in its ENTRY row is the reference price passed to place_order, and the
\* log says that no fill confirmation was received.
C7_TimedOutEntryKeepsReferencePrice ==
    EntryTimedOut
    => /\ last.ret = "True"
       /\ IsOpen(last.symbol)
       /\ current_positions[last.symbol].entry_price = last.entry_price
       /\ ledger # <<>>
       /\ ledger[Len(ledger)].action = "ENTRY"
       /\ ledger[Len(ledger)].symbol = last.symbol
       /\ ledger[Len(ledger)].entry_price = last.entry_price
       /\ HasMsg(log, "No fill confirmation received, using estimated price")

\* reached: an entry has just timed out while the cache holds a price other
\* than the reference price
C7_Witness ==
    /\ EntryTimedOut
    /\ HasMsg(log, "Timeout waiting for order to fill")
    /\ ~CacheAbsent(last.symbol)
    /\ GLOBAL_PRICE_CACHE[last.symbol] # <<last.entry_price>>

\* the ENTRY row that an EXIT row at index i belongs to: the latest earlier
\* ENTRY row with its trade_id and symbol (0 if there is none)
MatchingEntry(led, i) ==
    LET js == {j \in 1..(i - 1) : /\ led[j].action = "ENTRY"
                                  /\ led[j].trade_id = led[i].trade_id
                                  /\ led[j].symbol = led[i].symbol}
    IN  IF js = {} THEN 0 ELSE CHOOSE j \in js : \A k \in js : k <= j

\* the broker's behaviour for the closing order of symbol in the step
BrokerOf(l, symbol) ==
    IF l.op \in {"check_exit_conditions", "close_all_positions_daily"}
    THEN l.bs[CHOOSE i \in 1..Len(all_symbols) : all_symbols[i] = symbol]
    ELSE l.b

\* C9: every EXIT row appended carries pnl_dollar = (exit_price -
\* entry_price) * shares for a buy and the negation of that for a sell,
\* with entry_price and shares those of its matching ENTRY row, and
\* exit_price the average fill price of the closing order when a fill was
\* observed, else the cached price read at the start of the close.
C9_ExitPnl ==
    [][ \A i \in (Len(ledger) + 1)..Len(ledger') :
            ledger'[i].action = "EXIT"
            => LET x == ledger'[i]
                   j == MatchingEntry(ledger', i)
                   b == BrokerOf(last', x.symbol)
               IN  /\ j # 0
                   /\ x.exit_price = IF b.status = "Filled" THEN b.avgFillPrice
                                     ELSE GLOBAL_PRICE_CACHE[x.symbol][1]
                   /\ x.signal_type = ledger'[j].signal_type
                   /\ x.pnl_dollar =
                        IF ledger'[j].signal_type = "buy"
                        THEN (x.exit_price - ledger'[j].entry_price) * ledger'[j].shares
                        ELSE -((x.exit_price - ledger'[j].entry_price) * ledger'[j].shares) ]_vars

\* reached: the ledger ends with the EXIT row of a short closed at a loss,
\* filled at a price other than the cached one
C9_Witness ==
    /\ ledger # <<>>
    /\ ledger[Len(ledger)].action = "EXIT"
    /\ ledger[Len(ledger)].signal_type = "sell"
    /\ ledger[Len(ledger)].pnl_dollar < 0
    /\ last.op = "close_position"
    /\ last.b.status = "Filled"
    /\ GLOBAL_PRICE_CACHE[last.symbol] # <<last.b.avgFillPrice>>

\* C1: when operations do not overlap, every symbol alternates Flat ->
\* Open -> Flat: an Open Position is never replaced by another Position,
\* and an ENTRY row is appended only for a symbol that was Flat, also when
\* the close requested by an opposite signal did not complete.
C1_NoEntryWhileOpen ==
    [][ \A symbol \in Symbols :
            IsOpen(symbol)
            => /\ current_positions'[symbol] \in {current_positions[symbol], NonePos}
               /\ \A i \in (Len(ledger) + 1)..Len(ledger') :
                      ~(ledger'[i].action = "ENTRY" /\ ledger'[i].symbol = symbol) ]_vars

\* C3: when two tasks for the same symbol interleave, the check of the
\* symbol's position made before submitting prevents a double entry: a
\* task whose check found the symbol Flat stores its Position and appends
\* its ENTRY row only while the symbol is still Flat.
C3_CheckGuardsDoubleEntry ==
    [][ \A w \in Workers :
            (/\ task[w] # Idle
             /\ task'[w] = Idle
             /\ task[w].seen = NonePos
             /\ last'.ret = "True")
            => ~IsOpen(task[w].symbol) ]_vars

\* C8: in the ledger every EXIT row has an earlier ENTRY row with its
\* trade_id, and every ENTRY row has at most one later EXIT row with its
\* trade_id.
C8_TradeIdsPairRows ==
    /\ \A i \in 1..Len(ledger) :
          ledger[i].action = "EXIT"
          => \E j \in 1..(i - 1) : /\ ledger[j].action = "ENTRY"
                                   /\ ledger[j].trade_id = ledger[i].trade_id
    /\ \A j \in 1..Len(ledger) :
          ledger[j].action = "ENTRY"
          => Cardinality({i \in (j + 1)..Len(ledger) :
                             /\ ledger[i].action = "EXIT"
                             /\ ledger[i].trade_id = ledger[j].trade_id}) <= 1

\* take_profit and stop_loss lie on the right sides of the entry price
DirectionalSanity(entry_price, signal_type, lv) ==
    IF signal_type = "buy"
    THEN lv[1] > entry_price * LevelDen /\ entry_price * LevelDen > lv[2]
    ELSE lv[2] > entry_price * LevelDen /\ entry_price * LevelDen > lv[1]

\* C10: for every entry price > 0, direction, lookback low <= high and
\* confidence in [0, 1], the levels returned by calculate_fibonacci_levels
\* satisfy take_profit > entry > stop_loss for a buy and stop_loss > entry
\* > take_profit for a sell, whether they come from the Fibonacci
\* computation or from the fallbacks; the correction that the sanity guard
\* would substitute for the same inputs satisfies them as well.
C10_DirectionalSanity ==
    fib # NoFib
    => /\ DirectionalSanity(fib.entry_price, fib.signal_type,
                            <<fib.take_profit, fib.stop_loss>>)
       /\ fib.bars.kind = "bars"
          => DirectionalSanity(fib.entry_price, fib.signal_type,
                               IF fib.signal_type = "buy"
                               THEN buy_adjusted(fib.entry_price, fib.confidence, fib.bars)
                               ELSE sell_adjusted(fib.entry_price, fib.confidence, fib.bars))

\* reached: levels of a short computed from bars whose range lies below
\* the entry price, at confidence 0
C10_Witness ==
    /\ fib # NoFib
    /\ fib.conn # None
    /\ fib.bars.kind = "bars"
    /\ fib.signal_type = "sell"
    /\ fib.entry_price > fib.bars.high
    /\ fib.confidence = 0
    /\ fib.take_profit < fib.entry_price * LevelDen

\* C11: with bars and a connection, a long whose entry lies above the
\* lookback low gets stop_loss = entry - 2 * (entry - low) * sl_frac and
\* take_profit = entry + (entry - low) * tp_frac, a short whose entry lies
\* below the lookback high gets stop_loss = entry + 2 * (high - entry) *
\* sl_frac and take_profit = entry - (high - entry) * tp_frac, where
\* sl_frac = 0.382 + (1 - confidence) * 0.236 and tp_frac = 1.382 +
\* confidence * 0.236; entry 100, buy, low 95, high 110, confidence 1.0
\* yields stop_loss 96.18 and take_profit 108.09.
C11_FibonacciLevels ==
    (fib # NoFib /\ fib.conn # None /\ fib.bars.kind = "bars")
    => LET entry   == fib.entry_price * LevelDen
           sl_frac == 382 * Quarters + (Quarters - fib.confidence) * 236
           tp_frac == 1382 * Quarters + fib.confidence * 236
           long    == (fib.entry_price - fib.bars.low) * Milli
           short   == (fib.bars.high - fib.entry_price) * Milli
       IN  /\ (fib.signal_type = "buy" /\ fib.entry_price > fib.bars.low)
              => /\ fib.stop_loss = entry - 2 * long * sl_frac
                 /\ fib.take_profit = entry + long * tp_frac
           /\ (fib.signal_type = "sell" /\ fib.entry_price < fib.bars.high)
              => /\ fib.stop_loss = entry + 2 * short * sl_frac
                 /\ fib.take_profit = entry - short * tp_frac
           /\ (fib.signal_type = "buy" /\ fib.entry_price = 100 /\ fib.bars.low = 95
               /\ fib.bars.high = 110 /\ fib.confidence = Quarters)
              => /\ fib.stop_loss = 9618 * (LevelDen \div 100)
                 /\ fib.take_profit = 10809 * (LevelDen \div 100)

\* reached: the levels of the scenario entry 100, buy, low 95, high 110,
\* confidence 1.0
C11_Witness ==
    /\ fib # NoFib
    /\ fib.conn # None
    /\ fib.bars = [kind |-> "bars", low |-> 95, high |-> 110]
    /\ fib.signal_type = "buy"
    /\ fib.entry_price = 100
    /\ fib.confidence = Quarters
    /\ fib.stop_loss < fib.entry_price * LevelDen

ClosedByStep(i) ==
    /\ current_positions[all_symbols[i]] # NonePos
    /\ current_positions'[all_symbols[i]] = NonePos

\* the step leaves the i-th symbol's position as it was
KeptByStep(i) == current_positions'[all_symbols[i]] = current_positions[all_symbols[i]]

\* C13: a failure while handling one symbol stays with that symbol.  A task
\* whose image cannot be analysed, or whose symbol has no cached price,
\* ends with no effect on positions, capital, ledger or the other tasks; a
\* task whose order fails ends with the same and frees its worker; and in
\* an exit sweep or daily close-out every symbol due to be closed whose
\* order the broker accepts is closed, whatever happened to the other
\* symbols of the sweep, while a symbol whose closing order fails keeps its
\* position.
C13_FailuresAreIsolated ==
    [][ /\ (last'.op = "process_single_image"
            /\ (last'.ret = "error" \/ last'.symbol \notin Symbols
                \/ get_current_price(last'.symbol) = NonePrice))
           => (FrameUnchanged /\ submitted' = <<>> /\ task' = task)
        /\ (last'.op = "place_order" /\ last'.ret = "False")
           => /\ FrameUnchanged
              /\ \E w \in Workers :
                    /\ task[w] # Idle
                    /\ task' = [task EXCEPT ![w] = Idle]
        /\ last'.op \in {"check_exit_conditions", "close_all_positions_daily"}
           => /\ task' = task
              /\ \A i \in 1..Len(all_symbols) :
                    LET due == IF last'.op = "check_exit_conditions"
                               THEN SweepCloses(i)
                               ELSE DailyCloses(i)
                                    /\ get_current_price(all_symbols[i]) # NonePrice
                    IN  IF due /\ last'.bs[i].submit = "ok"
                        THEN ClosedByStep(i)
                        ELSE KeptByStep(i) ]_vars

\* reached: an exit sweep over two Open symbols in which the closing order
\* of the first fails and the second is closed
C13_Witness ==
    /\ last.op = "check_exit_conditions"
    /\ last.bs[1].submit = "raise"
    /\ last.bs[2].submit = "ok"
    /\ current_positions[all_symbols[1]] # NonePos
    /\ current_positions[all_symbols[2]] = NonePos
    /\ HasMsg(log, "Error closing position")
    /\ HasMsg(log, "Position closed")

SegmentsOf(a) == segments_of(a.image)
ModalCount(a) ==
    Cardinality({i \in 1..Len(SegmentsOf(a)) :
                    SegmentsOf(a)[i].width = most_common_width_of(SegmentsOf(a))})

\* the segments within max(1, mode // 4) of the modal width
WithinModeTolerance(a) ==
    LET mode == most_common_width_of(SegmentsOf(a))
    IN  {i \in 1..Len(SegmentsOf(a)) :
            Abs(SegmentsOf(a)[i].width - mode) <= Max(1, mode \div 4)}

Detected(a) == a.pc \in {"detected", "done"} /\ a.candle_width # NoWidth

IsModalWidth(a, w) ==
    \A i \in 1..Len(SegmentsOf(a)) :
        width_count(SegmentsOf(a), SegmentsOf(a)[i].width) <= width_count(SegmentsOf(a), w)

C15_ReferenceX ==
    analyzer.pc = "done"
    => LET cp == analyzer.candle_positions
       IN  /\ Len(cp) < 2
              => /\ analyzer.error # ""
                 /\ analyzer.results = NoSignals
                 /\ analyzer.scanned = <<>>
           /\ Len(cp) >= 2
              => /\ analyzer.error = ""
                 /\ \E k \in 1..Len(cp) :
                       /\ Cardinality({j \in 1..Len(cp) : cp[j].center > cp[k].center}) = 1
                       /\ analyzer.candle_x = <<(cp[k].left + cp[k].right) \div 2>>
                 /\ analyzer.scanned = <<analyzer.candle_x[1], analyzer.candle_x[1],
                                         analyzer.candle_x[1]>>
           /\ (analyzer.image = ThreeCandleImage /\ analyzer.error # "Failed to load image")
              => /\ Len(cp) = 3
                 /\ analyzer.candle_x = <<33>>

\* reached: the analysis of the image with segments red [10,17], red
\* [30,37], green [50,57], whose scans report buy, sell, none
C15_Witness ==
    /\ analyzer.pc = "done"
    /\ analyzer.image = ThreeCandleImage
    /\ Len(analyzer.candle_positions) = 3
    /\ analyzer.candle_x = <<33>>
    /\ analyzer.results = [STM |-> "buy", TD |-> "sell", Zigzag |-> "none"]

\* wait_for_fill has just returned to place_order, which goes on to request
\* the bars
WaitReturned == app.call.pc = "request_historical_5m" /\ app.hist_data = <<>>

\* C17: wait_for_fill returns the fill details if a Filled status with
\* filled > 0 was recorded for the order at any moment before the deadline,
\* before wait_for_fill was entered or during the wait; it returns none on
\* a Cancelled or Rejected status, and none at the deadline only if no fill
\* was recorded before it.
C17_NoFillLost ==
    WaitReturned
    => /\ app.call.b.status = "Filled"
          => /\ app.filled_orders # NoneFill
             /\ app.call.b.avgFillPrice = app.filled_orders.avg_fill_price
       /\ app.call.b.status = "none"
          => \/ app.filled_orders = NoneFill
             \/ app.fill_time >= app.call.start_time + FillTimeout

\* the call is inside wait_for_fill
InWaitForFill(a) == a.call.pc \in {"while", "poll", "event_wait"}

\* the broker has delivered no orderStatus callback for the order
NoOrderCallback == app.order_status = "none" /\ app.filled_orders = NoneFill

\* wait_for_fill returns in this step, with result b
WaitForFillReturns(b) ==
    /\ InWaitForFill(app)
    /\ \/ app'.call.pc = "request_historical_5m" /\ app'.call.b = b
       \/ app'.call = NoCall /\ last'.b = b

\* C16: a stalled broker never hangs the system.  When the broker delivers
\* no callback for the order, wait_for_fill returns none, and only once its
\* deadline has passed; request_historical_5m returns the bars received so
\* far, at the latest when its timeout has passed; and every call of
\* place_order, close_position and check_exit_conditions that has begun
\* eventually returns.
C16_StalledBrokerNeverHangs ==
    /\ [][ /\ (NoOrderCallback /\ InWaitForFill(app) /\ ~InWaitForFill(app'))
              => /\ WaitForFillReturns(Timeout)
                 /\ now - app.call.start_time >= FillTimeout
           /\ (app.call.pc = "request_historical_5m" /\ app'.call = NoCall)
              => /\ last'.bars = app.hist_data
                 /\ app.hist_events = "set"
                       \/ now - app.call.wait_start >= HistTimeout ]_vars
    /\ (app.call # NoCall) ~> (app.call = NoCall)

\* place_order has returned although the broker delivered nothing: no
\* order status, no bar, no end of bars
C16_Witness ==
    /\ last.op = "place_order"
    /\ last.b = Timeout
    /\ last.order_status = "none"
    /\ last.bars = <<>>
    /\ last.hist_events = "clear"
    /\ last.returned - last.start_time >= FillTimeout + HistTimeout
    /\ app.call = NoCall
    /\ IsOpen(last.symbol)

OppositeReasons == {"OPPOSITE SIGNAL (BUY)", "OPPOSITE SIGNAL (SELL)"}

\* the first step of a task: an aligned signal arrives for a symbol whose
\* Open Position has the other direction (lines 1500-1503)
OppositeSignalArrives(w) ==
    /\ task[w] = Idle
    /\ task'[w] # Idle
    /\ IsOpen(task'[w].symbol)
    /\ current_positions[task'[w].symbol].signal_type # task'[w].signal_type

\* the step closes the old position: its EXIT row, its exit order
OldPositionClosed(w) ==
    LET old == current_positions[task'[w].symbol]
    IN  /\ Len(ledger') = Len(ledger) + 1
        /\ ledger'[Len(ledger')].action = "EXIT"
        /\ ledger'[Len(ledger')].trade_id = old.trade_id
        /\ ledger'[Len(ledger')].reason \in OppositeReasons
        /\ Len(submitted') = 1
        /\ submitted'[1].action = IF old.signal_type = "buy" THEN "SELL" ELSE "BUY"
        /\ current_positions'[task'[w].symbol] = NonePos

\* the second step of such a task: place_order for the new direction
EntryAfterOppositeSignal(w) ==
    /\ task[w] # Idle
    /\ task'[w] = Idle
    /\ \/ task[w].seen # NonePos
       \/ /\ ledger # <<>>
          /\ ledger[Len(ledger)].symbol = task[w].symbol
          /\ ledger[Len(ledger)].reason \in OppositeReasons

\* the entry follows the exit: the ENTRY row of the new trade after the
\* EXIT row of the old one, the entry order, the symbol Open in direction d
EnteredAfterExit(w) ==
    /\ ledger # <<>>
    /\ ledger[Len(ledger)].action = "EXIT"
    /\ ledger[Len(ledger)].reason \in OppositeReasons
    /\ Len(ledger') = Len(ledger) + 1
    /\ ledger'[Len(ledger')].action = "ENTRY"
    /\ ledger'[Len(ledger')].signal_type = task[w].signal_type
    /\ Len(submitted') = 1
    /\ submitted'[1].action = IF task[w].signal_type = "buy" THEN "BUY" ELSE "SELL"
    /\ current_positions'[task[w].symbol] # NonePos
    /\ current_positions'[task[w].symbol].signal_type = task[w].signal_type

\* C18: when an aligned signal of direction d arrives for a symbol whose
\* Open Position has the opposite direction and a price is cached, the
\* old position is closed first and only then the new entry proceeds: the
\* EXIT row of the old trade (reason OPPOSITE SIGNAL) is appended before
\* the ENTRY row of the new trade, the exit order is submitted before the
\* entry order, and the symbol ends Open in direction d.
C18_OppositeSignalClosesFirst ==
    [][ \A w \in Workers :
            /\ OppositeSignalArrives(w) => OldPositionClosed(w)
            /\ EntryAfterOppositeSignal(w) => EnteredAfterExit(w) ]_vars

\* the cached price cp, in dollars, has reached the take-profit level of
\* position p; likewise the stop-loss level
TakeProfitCrossed(p, cp) ==
    IF p.signal_type = "buy" THEN cp * LevelDen >= p.take_profit
                             ELSE cp * LevelDen <= p.take_profit

StopLossCrossed(p, cp) ==
    IF p.signal_type = "buy" THEN cp * LevelDen <= p.stop_loss
                             ELSE cp * LevelDen >= p.stop_loss

\* the step appends the EXIT row of position p with the given reason and
\* leaves its symbol without a position
ClosedFor(p, reason) ==
    /\ current_positions'[p.symbol] = NonePos
    /\ \E k \in (Len(ledger) + 1)..Len(ledger') :
          /\ ledger'[k].action = "EXIT"
          /\ ledger'[k].trade_id = p.trade_id
          /\ ledger'[k].reason = reason

\* the step has called close_position with a price in hand: each of its
\* outcomes leaves one of these lines in the log
CloseAttempted ==
    \/ HasMsg(log', "Position closed")
    \/ HasMsg(log', "Error closing position")
    \/ HasMsg(log', "No IB connection available for closing position")

\* C19: check_exit_conditions closes an Open position exactly when the
\* cached price p has crossed one of its levels, and reads nothing but the
\* price cache: for a long, with reason TAKE PROFIT iff p >= take_profit,
\* else STOP LOSS iff p <= stop_loss; for a short, TAKE PROFIT iff p <=
\* take_profit, else STOP LOSS iff p >= stop_loss; the closing order being
\* accepted, the position is closed with that reason.  Strictly between the
\* levels the position, the capital and the ledger are unchanged and no
\* order is submitted.
C19_ExitExactlyWhenCrossed ==
    [][ last'.op = "check_exit_conditions"
        => \A i \in 1..Len(all_symbols) :
              LET symbol == all_symbols[i]
                  p      == current_positions[symbol]
                  c      == GLOBAL_PRICE_CACHE[symbol]
              IN  (IsOpen(symbol) /\ c # NonePrice)
                  => /\ TakeProfitCrossed(p, c[1])
                        => /\ CloseAttempted
                           /\ (ib # None /\ last'.bs[i].submit = "ok")
                                 => ClosedFor(p, "TAKE PROFIT")
                     /\ (~TakeProfitCrossed(p, c[1]) /\ StopLossCrossed(p, c[1]))
                        => /\ CloseAttempted
                           /\ (ib # None /\ last'.bs[i].submit = "ok")
                                 => ClosedFor(p, "STOP LOSS")
                     /\ (~TakeProfitCrossed(p, c[1]) /\ ~StopLossCrossed(p, c[1]))
                        => /\ current_positions'[symbol] = p
                           /\ current_capital' = current_capital
                           /\ ledger' = ledger
                           /\ submitted' = <<>>
                           /\ log' = <<>> ]_vars

\* reached: the sweep has closed a short at its stop-loss
C19_Witness ==
    /\ last.op = "check_exit_conditions"
    /\ ledger # <<>>
    /\ ledger[Len(ledger)].action = "EXIT"
    /\ ledger[Len(ledger)].signal_type = "sell"
    /\ ledger[Len(ledger)].reason = "STOP LOSS"
    /\ \A symbol \in Symbols : ~IsOpen(symbol)

\* place_order(symbol, ...) has just returned after wait_for_fill handed it
\* the fill of the entry order
EntryFilled ==
    /\ last.op = "place_order"
    /\ ib # None
    /\ last.symbol \in Symbols
    /\ last.b.submit = "ok"
    /\ last.b.status = "Filled"

\* C20: when a fill of the entry order is observed before the timeout, the
\* Position's entry_price is the fill's average price, and its take_profit
\* and stop_loss are the levels calculate_fibonacci_levels gives for that
\* fill price, not for the reference price passed to place_order.
C20_LevelsFromFillPrice ==
    EntryFilled
    => LET p  == current_positions[last.symbol]
           lv == calculate_fibonacci_levels(ib, last.b.avgFillPrice, last.signal_type,
                                            last.confidence, last.bars)
       IN  /\ last.ret = "True"
           /\ IsOpen(last.symbol)
           /\ p.entry_price = last.b.avgFillPrice
           /\ p.take_profit = lv[1]
           /\ p.stop_loss = lv[2]
           /\ HasMsg(log, "Order filled at actual price")

\* reached: an entry filled at a price other than the reference price,
\* whose levels differ from those of the reference price
C20_Witness ==
    /\ EntryFilled
    /\ last.b.avgFillPrice # last.entry_price
    /\ IsOpen(last.symbol)
    /\ <<current_positions[last.symbol].take_profit,
         current_positions[last.symbol].stop_loss>>
          # calculate_fibonacci_levels(ib, last.entry_price, last.signal_type,
                                       last.confidence, last.bars)

\* place_order(symbol, ...) has stored a position in this step
EntryPlaced ==
    /\ last'.op = "place_order"
    /\ last'.ret = "True"
    /\ Len(ledger') = Len(ledger) + 1

\* C21: the share count of every entry order is floor(0.1 * current_capital
\* / reference_price), at least 1, on the capital at the time of the call,
\* that is after the reservations of the positions then open; it is an
\* integer >= 1 also when the capital is below the price of one share.
\* Capital is in tenths of a dollar: n = floor(capital / (100 * price)).
C21_ShareCount ==
    [][ EntryPlaced
        => LET n == ledger'[Len(ledger')].shares
               p == last'.entry_price
           IN  /\ n \in Nat
               /\ n >= 1
               /\ n > 1 => /\ n * 100 * p <= current_capital
                           /\ current_capital < (n + 1) * 100 * p
               /\ n = 1 => current_capital < 2 * 100 * p
               /\ current_positions'[last'.symbol].shares = n
               /\ Len(submitted') = 1
               /\ submitted'[1].totalQuantity = n ]_vars

\* reached: a second entry, sized while the first position holds its
\* reservation, on a capital below the price of one share
C21_Witness ==
    /\ last.op = "place_order"
    /\ last.ret = "True"
    /\ \A symbol \in Symbols : IsOpen(symbol)
    /\ Len(ledger) = 2
    /\ ledger[2].shares = 1
    /\ current_capital + ledger[2].shares * last.entry_price < 10 * last.entry_price

LimitOf(order, price) ==
    LET exact == IF order.action = "BUY" THEN price * 1005 ELSE price * 995
    IN  Abs(order.lmtPrice * 10 - exact) <= 5

\* order is a market order in the regular session of the clock's time,
\* else a limit order allowed outside it, priced from price
OrderForSession(order, price) ==
    LET t == now % DaySeconds
    IN  /\ order.orderType = "MKT" <=> (9 * 3600 + 30 * 60 <= t /\ t < 16 * 3600)
        /\ order.orderType # "MKT"
              => /\ order.orderType = "LMT"
                 /\ order.outsideRth
                 /\ LimitOf(order, price)

\* C23: every entry and exit order is a market order iff the US/Eastern
\* time of submission t satisfies 09:30 <= t < 16:00, and otherwise a limit
\* order with the outside-hours flag whose limit is the reference price (the
\* cached price, for an exit) times 1.005 for a BUY and 0.995 for a SELL,
\* rounded to cents; its quantity is the position's share count; an entry
\* order is a BUY for a buy and a SELL for a sell, and an exit order the
\* opposite of its entry.
C23_OrderForm ==
    [][ /\ (last'.op = "place_order" /\ submitted' # <<>>)
           => /\ Len(submitted') = 1
              /\ OrderForSession(submitted'[1], last'.entry_price)
              /\ submitted'[1].action = IF last'.signal_type = "buy" THEN "BUY" ELSE "SELL"
              /\ submitted'[1].totalQuantity = current_positions'[last'.symbol].shares
        /\ (/\ last'.op \in {"close_position", "check_exit_conditions",
                            "close_all_positions_daily"}
            /\ submitted' # <<>>)
           => /\ Len(submitted') = 1
              /\ \E symbol \in Symbols :
                    /\ IsOpen(symbol)
                    /\ OrderForSession(submitted'[1], get_current_price(symbol)[1])
                    /\ submitted'[1].action =
                          IF current_positions[symbol].signal_type = "buy"
                          THEN "SELL" ELSE "BUY"
                    /\ submitted'[1].totalQuantity = current_positions[symbol].shares
      ]_vars

\* reached: a short closed at 16:00:00 by a limit order to BUY
C23_Witness ==
    /\ last.op = "close_position"
    /\ now = 16 * 3600
    /\ Len(submitted) = 1
    /\ submitted[1].orderType = "LMT"
    /\ submitted[1].action = "BUY"
    /\ submitted[1].outsideRth
    /\ ledger # <<>>
    /\ ledger[Len(ledger)].action = "EXIT"

\* the widths the retry step may try: the up to three most frequent ones
TriedWidths(a) ==
    LET sw == sorted_widths_of(SegmentsOf(a))
    IN  {sw[k] : k \in 1..Min(3, Len(sw))}

\* how many candles the attempt with this width yields
AttemptCount(a, width) ==
    Len(candles_near(SegmentsOf(a), width, Max(2, width \div 3)))

\* the retry step is entered: the first pass finds fewer than 5 candles
RetryEntered(a) ==
    /\ a.pc \in {"detected", "done"}
    /\ SegmentsOf(a) # <<>>
    /\ Cardinality(WithinModeTolerance(a)) < 5

\* C24: in the retry step the up to three most frequent widths are tried in
\* order of falling frequency with tolerance max(2, width // 3); the first
\* width that yields at least 8 candles is chosen, and if none does the list
\* kept is the best attempt: it never has fewer candles than another
\* attempted width, or the first pass, produced.
C24_RetryKeepsBestAttempt ==
    (RetryEntered(analyzer) /\ analyzer.error # "Failed to load image")
    => LET sw == sorted_widths_of(SegmentsOf(analyzer))
           n  == Len(analyzer.candle_positions)
       IN  IF \E k \in 1..Min(3, Len(sw)) : AttemptCount(analyzer, sw[k]) >= 8
           THEN \E k \in 1..Min(3, Len(sw)) :
                   /\ AttemptCount(analyzer, sw[k]) >= 8
                   /\ \A j \in 1..(k - 1) : AttemptCount(analyzer, sw[j]) < 8
                   /\ analyzer.candle_width = sw[k]
                   /\ n = AttemptCount(analyzer, sw[k])
           ELSE /\ n >= Cardinality(WithinModeTolerance(analyzer))
                /\ \A width \in TriedWidths(analyzer) : n >= AttemptCount(analyzer, width)

\* pixel (x, y) of the analyzer's image passes the rules of the colour
IsColor(color_name, x, y) ==
    /\ 0 <= x /\ x < Len(analyzer.rgb_image[1])
    /\ 0 <= y /\ y < Len(analyzer.rgb_image)
    /\ color_rules(color_name, analyzer.rgb_image[y + 1][x + 1])

\* some row has the colour at column x and at every column within
\* pixels_range of it on both sides
ValidatedHit(color_name, x) ==
    \E y \in 0..(Len(analyzer.rgb_image) - 1) :
       /\ IsColor(color_name, x, y)
       /\ \A k \in 1..pixels_range :
             IsColor(color_name, x - k, y) /\ IsColor(color_name, x + k, y)

\* C25: the Zigzag signal at reference column x is buy iff some row has a
\* fuchsia pixel at x with fuchsia at every column x - k and x + k, k = 1..N;
\* otherwise sell iff some row has an aqua pixel validated the same way;
\* otherwise none.  A hit whose window leaves the image is never validated,
\* and an unvalidated fuchsia hit does not keep a validated aqua hit from
\* giving sell.
C25_ZigzagSignal ==
    analyzer.pc = "zigzag"
    => LET x == analyzer.candle_x[1]
       IN  /\ analyzer.results.Zigzag =
                 IF ValidatedHit("fuchsia", x) THEN "buy"
                 ELSE IF ValidatedHit("aqua", x) THEN "sell"
                 ELSE "none"
           /\ (x - pixels_range < 0 \/ x + pixels_range >= Len(analyzer.rgb_image[1]))
                 => analyzer.results.Zigzag = "none"

\* a fuchsia hit that is not validated, a validated aqua hit, and sell
C25_Witness ==
    /\ analyzer.pc = "zigzag"
    /\ \E y \in 0..(Len(analyzer.rgb_image) - 1) :
          IsColor("fuchsia", analyzer.candle_x[1], y)
    /\ ~ValidatedHit("fuchsia", analyzer.candle_x[1])
    /\ ValidatedHit("aqua", analyzer.candle_x[1])
    /\ analyzer.results.Zigzag = "sell"

\* the rows of the lower half where column x has the colour
LowerHalfHits(color_name, x) ==
    {y \in (Len(analyzer.rgb_image) \div 2)..(Len(analyzer.rgb_image) - 1) :
        IsColor(color_name, x, y)}

\* C26: the STM signal depends only on the pixels of the reference column in
\* rows [height // 2, height): buy iff at least one of them is orange, sell
\* iff none is orange and at least one is purple, none otherwise; the
\* priority is by category and not by row, and the upper half never matters.
C26_StmSignal ==
    analyzer.pc = "stm"
    => LET x == analyzer.candle_x[1]
       IN  analyzer.results.STM =
              IF LowerHalfHits("orange", x) # {} THEN "buy"
              ELSE IF LowerHalfHits("purple", x) # {} THEN "sell"
              ELSE "none"

\* an orange pixel below a purple pixel in the lower half, and buy
C26_Witness ==
    /\ analyzer.pc = "stm"
    /\ \E y1 \in LowerHalfHits("purple", analyzer.candle_x[1]),
          y2 \in LowerHalfHits("orange", analyzer.candle_x[1]) : y1 < y2
    /\ analyzer.results.STM = "buy"

\* a positive LAST tick of the symbol has been received
LastReceived(symbol) == symbol_to_price[symbol].last # NonePrice

\* every cache entry is None or strictly positive, and get_current_price
\* reports it, or absent for None and for a symbol without an entry
CacheEntriesPositive ==
    /\ \A symbol \in DOMAIN GLOBAL_PRICE_CACHE :
          \/ GLOBAL_PRICE_CACHE[symbol] = NonePrice
          \/ GLOBAL_PRICE_CACHE[symbol][1] > 0
    /\ \A symbol \in Symbols \cup {Untracked} :
          get_current_price(symbol) =
             IF symbol \in DOMAIN GLOBAL_PRICE_CACHE
             THEN GLOBAL_PRICE_CACHE[symbol] ELSE NonePrice
    /\ last.op = "get_current_price"
          => last.ret = get_current_price(last.symbol)

\* what the tick (reqId, tickType, price) does to the cache
TickEffect(reqId, tickType, price) ==
    LET symbol == reqId_to_symbol(reqId)
    IN  IF price <= 0 \/ symbol = None
        THEN GLOBAL_PRICE_CACHE' = GLOBAL_PRICE_CACHE
        ELSE /\ \A s \in DOMAIN GLOBAL_PRICE_CACHE \ {symbol} :
                   GLOBAL_PRICE_CACHE'[s] = GLOBAL_PRICE_CACHE[s]
             /\ tickType = TICK_LAST
                   => GLOBAL_PRICE_CACHE'[symbol] = <<price>> /\ LastReceived(symbol)'
             /\ tickType = TICK_CLOSE
                   => GLOBAL_PRICE_CACHE'[symbol] =
                         IF LastReceived(symbol) THEN GLOBAL_PRICE_CACHE[symbol]
                         ELSE <<price>>
             /\ tickType \notin {TICK_LAST, TICK_CLOSE}
                   => GLOBAL_PRICE_CACHE' = GLOBAL_PRICE_CACHE

\* a LAST once received stays received, it is received only by a positive
\* LAST tick, and only a tick changes the cache
TickStep ==
    /\ \A reqId \in ReqIds, tickType \in TickTypes, price \in TickPrices :
          TickPrice(reqId, tickType, price) => TickEffect(reqId, tickType, price)
    /\ \A symbol \in Symbols :
          /\ LastReceived(symbol) => LastReceived(symbol)'
          /\ (~LastReceived(symbol) /\ LastReceived(symbol)')
                => \E reqId \in ReqIds, price \in 1..MaxPrice :
                      /\ reqId_to_symbol(reqId) = symbol
                      /\ TickPrice(reqId, TICK_LAST, price)
    /\ last'.op # "tickPrice" => GLOBAL_PRICE_CACHE' = GLOBAL_PRICE_CACHE

\* C27: a price cache entry is absent / None or strictly positive; it is the
\* most recent positive LAST tick (type 4) of the symbol if a LAST was ever
\* received, else the most recent positive CLOSE tick (type 9); a CLOSE tick
\* never overwrites a cached LAST; non-positive prices and unknown request
\* ids never change the cache; get_current_price reports absent for None.
C27_PriceCache == [](CacheEntriesPositive) /\ [][TickStep]_vars

\* a CLOSE tick has arrived after a LAST tick and the cache holds the LAST
C27_Witness ==
    /\ last.op = "tickPrice"
    /\ last.symbol = "AAPL"
    /\ symbol_to_price["AAPL"].last = <<1>>
    /\ symbol_to_price["AAPL"].close = <<2>>
    /\ GLOBAL_PRICE_CACHE["AAPL"] = <<1>>

NothingHappens ==
    /\ submitted' = <<>>
    /\ UNCHANGED <<current_positions, current_capital, ledger, task>>

\* what the claim says of the image task (symbol, error, al)
ImageTaskFrame(symbol, error, al) ==
    /\ (/\ ~error
        /\ al.is_aligned
        /\ get_current_price(symbol) # NonePrice
        /\ IsOpen(symbol)
        /\ current_positions[symbol].signal_type = al.signal_type)
          => NothingHappens
    /\ (~al.is_aligned \/ get_current_price(symbol) = NonePrice)
          => NothingHappens

\* C29: an aligned signal whose direction equals that of the symbol's Open
\* Position changes nothing: no order is submitted, no row is written, the
\* Position and the capital are unchanged.  A result that is not aligned, or
\* an aligned one while no price is cached, never submits an order.
C29_SameDirectionSignalChangesNothing ==
    [][last'.op = "process_single_image"
          => \A w \in Workers, al \in AlignmentResults, mh \in BOOLEAN :
                ProcessSingleImage(w, last'.symbol, last'.ret = "error", al, last'.b, mh)
                   => ImageTaskFrame(last'.symbol, last'.ret = "error", al)]_vars

\* an aligned signal in the direction of the Open Position has been handled
C29_Witness ==
    /\ last.op = "process_single_image"
    /\ last.signal_type \in Directions
    /\ IsOpen(last.symbol)
    /\ current_positions[last.symbol].signal_type = last.signal_type
    /\ get_current_price(last.symbol) # NonePrice
    /\ ledger # <<>>
    /\ ledger[Len(ledger)].action = "ENTRY"
    /\ AllIdle

\* the rows the step appends to the ledger for the symbol
NewRowsOf(symbol) ==
    {k \in (Len(ledger) + 1)..Len(ledger') : ledger'[k].symbol = symbol}

====
